---- MODULE Spec2Model ----
(***************************************************************************)
(* Rig bridge of openhamclock: the plugin registry (plugin-registry.js),   *)
(* the rigctld TCP plugin (plugins/rigctld.js), the USB serial plugin      *)
(* (plugins/usb/index.js), the shared rig state and the command endpoints  *)
(* of server.js.                                                           *)
(*                                                                         *)
(* Node.js runs one callback at a time, to completion: every action below  *)
(* is one callback (an HTTP handler, a socket or port event, a timer).     *)
(* Handlers are operators from a world record to a world record, so that a *)
(* handler that calls others (switchPlugin calls disconnect, create and    *)
(* connect) is the composition of their operators inside one action.       *)
(***************************************************************************)
EXTENDS Integers, Sequences, FiniteSets, TLC

\* ------------------------------------------------------------- bounds
\* Plugin instances the registry creates in one run (switchPlugin calls that start a plugin).
MaxInst == 2
\* Commands accepted by send() on one connection (polls count three).
MaxSent == 4

\* GET /stream requests in one run.
MaxStreams == 2
\* Clock ticks (Date.now() advancing) in one run.
MaxClock == 2
\* Sockets the rig-control clients create in one run.
MaxLinks == 3
\* Commands a rig-control client sends in one run (its sequence numbers go up to this).
MaxSeq == 3
\* CI-V frames the radio sends in one run, and the bytes of one data event.
MaxFrames == 3
MaxChunk == 12
\* The longest byte stream a radio sends on one connection.
MaxWire == 3
\* The connections on which the radio's byte stream is followed.
MaxOpens == 2

Inst == 1..MaxInst
Client == 1..MaxStreams
\* Slots for the socket and port objects that exist at the same time.
Sock == 1..(MaxInst + 1)

\* ------------------------------------------------------------- program constants
\* registerBuiltins: the USB descriptors (yaesu, kenwood, icom), rigctld and flrig.
RegisteredIds == {"yaesu", "kenwood", "icom", "rigctld", "flrig"}
UsbTypes == {"yaesu", "kenwood", "icom"}

VARIABLES
  instance,   \* PluginRegistry._instance: the active instance, 0 for null
  activeId,   \* PluginRegistry._activeId, "" for null
  config,     \* config.radio: type, serialPort (set or empty), pttEnabled
  state,      \* the shared rig state of core/state.js
  plugins,    \* the closure variables of every plugin instance created so far
  socks,      \* the net.Socket / SerialPort objects that exist, with the bytes in flight on them:
              \* out (written, not yet read by the peer), inb (sent by the peer, not yet delivered);
              \* torn is history: a data event has ended inside a line; fed is history: the
              \* CI-V frames the radio has sent on the port
  rig,        \* the radio behind the rigctld daemon
  now,        \* Date.now()
  crashed,    \* an exception left a callback uncaught: the process has ended
  lastWrite,  \* history: the latest updateState call or state assignment came from an instance
              \* that was not the registry's active instance at that moment
  regTrace,   \* history: the calls the latest switchPlugin made, in order
  http,       \* history: the answer to the latest HTTP request, and the registry methods its
              \* handler called; missing: the request's required body field was absent
  booted,     \* registry.connectActive() has run
  called,     \* history: the latest registry.dispatch call made on its own, what it invoked
              \* and what it returned
  subs,       \* the /stream subscribers of core/state.js: client ids in the order they were added
  streams,    \* the responses of the GET /stream requests so far, by client id: the channel's
              \* status and the events written to it
  port,       \* config.port
  disk,       \* rig-bridge-config.json as saveConfig last wrote it
  links,      \* the sockets the FlexRadio and TCI clients have created, in creation order, with
              \* every line written to each; deliberate is history: disconnect() closed it
  flex,       \* the fields of the FlexRadioClient object; reconnectLeaked counts the pending
              \* timers whose handle was overwritten; history: invoked, the responses handed to
              \* completion callbacks, and dropped, the seqs whose callback handleDisconnect cleared
  tci,         \* the fields of the TCIClient object and, as history, the latest payload and the
              \* events emitted for it
  wire        \* history of the FlexRadioClient's current connection: the bytes the radio sends on
              \* it, how many were delivered and where the data events ended, the receive buffer
              \* as the connection found it, and the lines handed to parseLine

vars == <<instance, activeId, config, state, plugins, socks, rig, now, crashed, lastWrite, port, disk, links, flex,
         tci, wire, regTrace, http, booted, called, subs, streams>>

\* ------------------------------------------------------------- text
\* Strings are sequences of one-character strings, so that a reply can be cut at any byte.
NL == "\n"
SP == " "
DigitChars == <<"0", "1", "2", "3", "4", "5", "6", "7", "8", "9">>
IsDigit(c) == \E k \in 1..10 : DigitChars[k] = c
DigitVal(c) == (CHOOSE k \in 1..10 : DigitChars[k] = c) - 1
IsSpace(c) == c \in {" ", "\n", "\r", "\t"}

\* Number -> decimal text, as the template literal `F ${hz}` formats a non-negative integer.
RECURSIVE ToDecimal(_)
ToDecimal(n) == IF n < 10 THEN <<DigitChars[n + 1]>> ELSE ToDecimal(n \div 10) \o <<DigitChars[(n % 10) + 1]>>

\* parseInt yields NaN when the text does not start with a number; NaN compares false with
\* everything.  The model writes NaN as a number no text of the model denotes.
NaN == 0 - 999999

RECURSIVE DropSpaces(_)
DropSpaces(s) == IF s # <<>> /\ IsSpace(Head(s)) THEN DropSpaces(Tail(s)) ELSE s

RECURSIVE DigitsValue(_, _)
DigitsValue(s, acc) == IF s # <<>> /\ IsDigit(Head(s)) THEN DigitsValue(Tail(s), acc * 10 + DigitVal(Head(s))) ELSE acc

\* parseInt(text): leading white space skipped, an optional sign, then the longest run of digits.
parseInt(text) ==
  LET s == DropSpaces(text)
      neg == s # <<>> /\ Head(s) = "-"
      t == IF s # <<>> /\ Head(s) \in {"-", "+"} THEN Tail(s) ELSE s
  IN IF t = <<>> \/ ~IsDigit(Head(t)) THEN NaN
     ELSE IF neg THEN 0 - DigitsValue(t, 0) ELSE DigitsValue(t, 0)

\* String.prototype.split(sep) for a one-character separator: always at least one piece.
RECURSIVE SplitAcc(_, _, _)
SplitAcc(s, sep, cur) ==
  IF s = <<>> THEN <<cur>>
  ELSE IF Head(s) = sep THEN <<cur>> \o SplitAcc(Tail(s), sep, <<>>)
  ELSE SplitAcc(Tail(s), sep, Append(cur, Head(s)))
split(s, sep) == SplitAcc(s, sep, <<>>)

RECURSIVE DropSpacesEnd(_)
DropSpacesEnd(s) == IF s # <<>> /\ IsSpace(s[Len(s)]) THEN DropSpacesEnd(SubSeq(s, 1, Len(s) - 1)) ELSE s
\* String.prototype.trim
trim(s) == DropSpacesEnd(DropSpaces(s))

\* ------------------------------------------------------------- the world
World ==
  [instance |-> instance, activeId |-> activeId, config |-> config, state |-> state, plugins |-> plugins,
   socks |-> socks, now |-> now, crashed |-> crashed, lastWrite |-> lastWrite, regTrace |-> regTrace,
   called |-> called, subs |-> subs, streams |-> streams, port |-> port, disk |-> disk, links |-> links,
   flex |-> flex, tci |-> tci, wire |-> wire]

Commit(w) ==
  /\ instance' = w.instance
  /\ activeId' = w.activeId
  /\ config' = w.config
  /\ state' = w.state
  /\ plugins' = w.plugins
  /\ socks' = w.socks
  /\ now' = w.now
  /\ crashed' = w.crashed
  /\ lastWrite' = w.lastWrite
  /\ regTrace' = w.regTrace
  /\ called' = w.called
  /\ subs' = w.subs
  /\ streams' = w.streams
  /\ port' = w.port
  /\ disk' = w.disk
  /\ links' = w.links
  /\ flex' = w.flex
  /\ tci' = w.tci
  /\ wire' = w.wire

NoReq == <<>>       \* pending = null (every command text is non-empty)
NoSock == 0         \* socket = null, serialPort = null
\* tx is history: the serialPort.write calls on a port in call order, each with what follows its
\* drain and whether the plugin's write() made it; acked and drained count the write and the
\* drain callbacks that have run.
FreeSlot ==
  [owner |-> 0, status |-> "free", out |-> <<>>, inb |-> <<>>, torn |-> FALSE, fed |-> <<>>,
   tx |-> <<>>, acked |-> 0, drained |-> 0]

\* handed is history: the responses the ASCII data handler has passed to proto.parse.
NoPlugin ==
  [kind |-> "none", socket |-> NoSock, queue |-> <<>>, pending |-> NoReq,
   pollTimer |-> FALSE, pollLeaked |-> 0, reconnectTimer |-> FALSE, reconnectLeaked |-> 0,
   settle |-> 0, wasExplicitlyDisconnected |-> FALSE, rxBinaryBuffer |-> <<>>, discarded |-> <<>>,
   disconnectedIn |-> "", sent |-> <<>>, written |-> <<>>, completed |-> <<>>, ifTimer |-> 0,
   rxBuffer |-> <<>>, handed |-> <<>>]

\* The slot of a new socket or port object of instance i: slot i when free, else the lowest free one.
HasFree(w) == \E s \in Sock : w.socks[s].status = "free"
NewSock(w, i) ==
  IF w.socks[i].status = "free" THEN i
  ELSE CHOOSE s \in Sock : w.socks[s].status = "free" /\ \A t \in Sock : w.socks[t].status = "free" => s <= t

\* ------------------------------------------------------------- shared state (core/state.js)
\* A response of GET /stream: not requested yet, open, failed (a write on it fails; its
\* 'close' event is still to come), closed.
NoSnap == [connected |-> FALSE, freq |-> 0, mode |-> <<>>, width |-> 0, ptt |-> FALSE]
NoStream == [status |-> "none", events |-> <<>>]

InitEvent(st) ==
  [type |-> "init", prop |-> "", value |-> 0,
   snap |-> [connected |-> st.connected, freq |-> st.freq, mode |-> st.mode, width |-> st.width, ptt |-> st.ptt]]
ChangeEvent(prop, value) == [type |-> "update", prop |-> prop, value |-> value, snap |-> NoSnap]

\* res.write(event) on the response of client c.
writeEvent(w, c, ev) == [w EXCEPT !.streams[c].events = Append(@, ev)]

removeSseClient(w, c) == [w EXCEPT !.subs = SelectSeq(@, LAMBDA d : d # c)]
addSseClient(w, c) == [w EXCEPT !.subs = Append(@, c)]

\* A broadcast that walks the array by position while removing from it: the subscriber that
\* moves into the place of a removed one is passed over.
RECURSIVE broadcastFromSkipping(_, _, _)
broadcastFromSkipping(w, ev, k) ==
  IF k > Len(w.subs) THEN w
  ELSE IF w.streams[w.subs[k]].status = "open"
    THEN broadcastFromSkipping(writeEvent(w, w.subs[k], ev), ev, k + 1)
    ELSE broadcastFromSkipping(removeSseClient(w, w.subs[k]), ev, k + 1)
broadcastSkipping(w, ev) == broadcastFromSkipping(w, ev, 1)

\* broadcast(event): the event is written to every subscriber in turn; a subscriber whose
\* write fails is removed, the others are served all the same, nothing reaches the caller.
RECURSIVE broadcastTo(_, _, _)
broadcastTo(w, ev, clients) ==
  IF clients = <<>> THEN w
  ELSE IF w.streams[Head(clients)].status = "open"
    THEN broadcastTo(writeEvent(w, Head(clients), ev), ev, Tail(clients))
    ELSE broadcastTo(removeSseClient(w, Head(clients)), ev, Tail(clients))
broadcast(w, ev) == broadcastTo(w, ev, w.subs)

updateStateAlwaysBroadcasts(w, i, prop, value) ==
  [broadcast(w, ChangeEvent(prop, value))
     EXCEPT !.state = IF @[prop] # value THEN [@ EXCEPT ![prop] = value, !.lastUpdate = w.now] ELSE @,
            !.lastWrite = (i # w.instance)]

\* updateState(prop, value): nothing when the value is the current one; otherwise the field is
\* set, lastUpdate stamped and a change event broadcast.  lastWrite records whether the
\* caller i is the active instance.
updateState(w, i, prop, value) ==
  IF w.state[prop] = value THEN [w EXCEPT !.lastWrite = (i # w.instance)]
  ELSE [broadcast(w, ChangeEvent(prop, value))
          EXCEPT !.state = [@ EXCEPT ![prop] = value, !.lastUpdate = w.now],
                 !.lastWrite = (i # w.instance)]

\* state.lastUpdate = Date.now()
stampLastUpdate(w, i) ==
  [w EXCEPT !.state.lastUpdate = w.now, !.lastWrite = (i # w.instance)]

\* reconnectTimer = setTimeout(connect, 5000).  reconnectTimer is TRUE while it holds a timer
\* that has not expired (an expired handle behaves as null: clearing it does nothing); a timer
\* it held and that was overwritten stays armed, out of reach of clearTimeout.
armReconnect(p) ==
  [p EXCEPT !.reconnectLeaked = IF p.reconnectTimer THEN @ + 1 ELSE @,
            !.reconnectTimer = TRUE]

\* if (reconnectTimer) { clearTimeout(reconnectTimer); reconnectTimer = null; }
clearReconnect(p) == [p EXCEPT !.reconnectTimer = FALSE]

\* ------------------------------------------------------------- plugins/rigctld.js
stopPolling(w, i) == [w EXCEPT !.plugins[i].pollTimer = FALSE]

processNoPendingCheck(w, i) ==
  LET p == w.plugins[i] IN
  IF p.queue = <<>> \/ p.socket = NoSock THEN w
  ELSE [w EXCEPT !.plugins[i].queue = Tail(@),
                 !.plugins[i].pending = Head(p.queue),
                 !.plugins[i].written = Append(@, Head(p.queue)),
                 !.socks[p.socket].out = IF w.socks[p.socket].status = "open" THEN Append(@, Head(p.queue)) ELSE @]

processLifo(w, i) ==
  LET p == w.plugins[i] IN
  IF p.pending # NoReq \/ p.queue = <<>> \/ p.socket = NoSock THEN w
  ELSE [w EXCEPT !.plugins[i].queue = SubSeq(@, 1, Len(@) - 1),
                 !.plugins[i].pending = p.queue[Len(p.queue)],
                 !.plugins[i].written = Append(@, p.queue[Len(p.queue)]),
                 !.socks[p.socket].out = IF w.socks[p.socket].status = "open" THEN Append(@, p.queue[Len(p.queue)]) ELSE @]

\* process(): the head of the queue becomes pending and is written, when nothing is pending.
\* A write on a socket whose peer has gone is lost.
process(w, i) ==
  LET p == w.plugins[i] IN
  IF p.pending # NoReq \/ p.queue = <<>> \/ p.socket = NoSock THEN w
  ELSE [w EXCEPT !.plugins[i].queue = Tail(@),
                 !.plugins[i].pending = Head(p.queue),
                 !.plugins[i].written = Append(@, Head(p.queue)),
                 !.socks[p.socket].out = IF w.socks[p.socket].status = "open" THEN Append(@, Head(p.queue)) ELSE @]

\* send(cmd): no caller passes a callback.
send(w, i, cmd) ==
  IF w.plugins[i].socket = NoSock THEN w
  ELSE process([w EXCEPT !.plugins[i].queue = Append(@, cmd), !.plugins[i].sent = Append(@, cmd)], i)

handleResponse(w, i, line) ==
  LET p == w.plugins[i] IN
  IF p.pending = NoReq THEN w
  ELSE
    LET req == p.pending
        w0 == [w EXCEPT !.plugins[i].pending = NoReq, !.plugins[i].completed = Append(@, req)]
        parts == split(line, SP)
        w1 == IF req = <<"f">>
                THEN IF parseInt(line) > 0 THEN updateState(w0, i, "freq", parseInt(line)) ELSE w0
              ELSE IF req = <<"m">>
                THEN IF Len(parts) >= 2 /\ parts[2] # <<>>
                       THEN updateState(updateState(w0, i, "mode", parts[1]), i, "width", parseInt(parts[2]))
                       ELSE updateState(w0, i, "mode", parts[1])
              ELSE IF req = <<"t">>
                THEN updateState(w0, i, "ptt", line = <<"1">>)
              ELSE w0
    IN process(stampLastUpdate(w1, i), i)

\* The 'data' handler: every non-blank piece between newlines of this one chunk is a response.
RECURSIVE handleLines(_, _, _)
handleLines(w, i, lines) ==
  IF lines = <<>> THEN w
  ELSE IF trim(Head(lines)) = <<>> THEN handleLines(w, i, Tail(lines))
  ELSE handleLines(handleResponse(w, i, trim(Head(lines))), i, Tail(lines))

onData(w, i, data) == handleLines(w, i, split(data, NL))

startPolling(w, i) == [stopPolling(w, i) EXCEPT !.plugins[i].pollTimer = TRUE]

\* The poll timer's callback.
pollTick(w, i) ==
  IF w.plugins[i].socket = NoSock THEN w
  ELSE send(send(send(w, i, <<"f">>), i, <<"m">>), i, <<"t">>)

\* connect(): a new socket starts connecting; the variable socket is not set yet.
rigctldConnect(w, i) ==
  IF w.plugins[i].socket # NoSock THEN w
  ELSE [w EXCEPT !.socks[NewSock(w, i)] = [FreeSlot EXCEPT !.owner = i, !.status = "connecting"]]

\* The callback of s.connect.
rigctldOnConnect(w, i, s) ==
  startPolling([updateState(w, i, "connected", TRUE) EXCEPT !.plugins[i].socket = s], i)

\* The 'close' handler of socket s; the socket object is gone afterwards.
\* discarded is history: the pending and queued requests the latest close dropped.
Dropped(p) == (IF p.pending # NoReq THEN <<p.pending>> ELSE <<>>) \o p.queue

rigctldOnCloseKeepsRequests(w, i, s) ==
  LET w1 == stopPolling([updateState(w, i, "connected", FALSE) EXCEPT !.plugins[i].socket = NoSock], i)
  IN [w1 EXCEPT !.plugins[i] = armReconnect([@ EXCEPT !.discarded = <<>>,
                                                     !.sent = <<>>, !.written = <<>>, !.completed = <<>>]),
                !.socks[s] = FreeSlot]

rigctldOnClose(w, i, s) ==
  LET w1 == stopPolling([updateState(w, i, "connected", FALSE) EXCEPT !.plugins[i].socket = NoSock], i)
  IN [w1 EXCEPT !.plugins[i] = armReconnect([@ EXCEPT !.pending = NoReq, !.queue = <<>>,
                                                     !.discarded = Dropped(w.plugins[i]),
                                                     !.sent = <<>>, !.written = <<>>, !.completed = <<>>]),
                !.socks[s] = FreeSlot]

\* s.destroy(): the handle is released at once, the 'close' event follows.
destroy(w, s) == [w EXCEPT !.socks[s].status = "closing", !.socks[s].out = <<>>, !.socks[s].inb = <<>>]

rigctldDisconnectStaysConnected(w, i) ==
  LET p == w.plugins[i]
      w1 == stopPolling([w EXCEPT !.plugins[i] = clearReconnect(@)], i)
      w2 == IF p.socket # NoSock THEN [destroy(w1, p.socket) EXCEPT !.plugins[i].socket = NoSock] ELSE w1
  IN [w2 EXCEPT !.plugins[i].pending = NoReq, !.plugins[i].queue = <<>>,
                !.plugins[i].sent = <<>>, !.plugins[i].written = <<>>, !.plugins[i].completed = <<>>]

rigctldDisconnect(w, i) ==
  LET p == w.plugins[i]
      w1 == stopPolling([w EXCEPT !.plugins[i] = clearReconnect(@)], i)
      w2 == IF p.socket # NoSock THEN [destroy(w1, p.socket) EXCEPT !.plugins[i].socket = NoSock] ELSE w1
      w3 == [w2 EXCEPT !.plugins[i].pending = NoReq, !.plugins[i].queue = <<>>,
                       !.plugins[i].sent = <<>>, !.plugins[i].written = <<>>, !.plugins[i].completed = <<>>]
  IN updateState(w3, i, "connected", FALSE)

rigctldSetFreq(w, i, hz) == send(w, i, <<"F", " ">> \o ToDecimal(hz))
rigctldSetMode(w, i, mode) == send(w, i, <<"M", " ">> \o mode \o <<" ", "0">>)
rigctldSetPTT(w, i, on) == send(w, i, IF on THEN <<"T", " ", "1">> ELSE <<"T", " ", "0">>)

\* ------------------------------------------------------------- plugins/usb/index.js
usbStopPolling(w, i) == [w EXCEPT !.plugins[i].pollTimer = FALSE]

isOpen(w, s) == s # NoSock /\ w.socks[s].status = "open"

\* serialPort = null; a port object whose open failed is garbage once no variable holds it.
dropPortRef(w, i) ==
  LET s == w.plugins[i].socket IN
  [w EXCEPT !.plugins[i].socket = NoSock,
            !.socks = IF s # NoSock /\ w.socks[s].status = "failed" THEN [@ EXCEPT ![s] = FreeSlot] ELSE @]

\* serialPort.close(): isOpen is false at once, the 'close' event follows.
closePort(w, s) == [w EXCEPT !.socks[s].status = "closing"]

\* serialPort.write(data, callback)
portWrite(w, s, data, then, via) ==
  [w EXCEPT !.socks[s].tx = Append(@, [data |-> data, then |-> then, via |-> via])]

\* write(data): false on a closed port; else the data is handed to serialPort.write and true
\* is returned at once; the callback drains.
usbWrite(w, i, data) ==
  LET s == w.plugins[i].socket IN
  IF ~isOpen(w, s) THEN w ELSE portWrite(w, s, data, "drain", "write")

\* doPoll: proto.poll(write) writes the protocol's poll command.
doPoll(w, i) == IF ~isOpen(w, w.plugins[i].socket) THEN w ELSE usbWrite(w, i, "poll")

\* proto.setFreq(hz, write), setMode, setPTT: one write of the command.
usbSet(w, i) == usbWrite(w, i, "set")

usbStartPollingSkipsFirstPoll(w, i) == [usbStopPolling(w, i) EXCEPT !.plugins[i].pollTimer = TRUE]

usbStartPolling(w, i) == [doPoll(usbStopPolling(w, i), i) EXCEPT !.plugins[i].pollTimer = TRUE]

\* The interval callbacks: the Yaesu keepalive, doPoll for the others.
usbPollTick(w, i) ==
  LET p == w.plugins[i] IN
  IF p.kind = "yaesu"
    THEN IF isOpen(w, p.socket) THEN portWrite(w, p.socket, "AI1;IF;", "drain", "direct") ELSE w
    ELSE doPoll(w, i)

\* startWithPreamble, the callback of the 500 ms settle timer: the receive buffers are
\* emptied.  Yaesu writes AI1; and assigns the keepalive
\* interval to pollTimer without stopping the one it may hold.
startWithPreamble(w, i) ==
  LET p == w.plugins[i]
      w1 == [w EXCEPT !.plugins[i].settle = @ - 1, !.plugins[i].rxBinaryBuffer = <<>>,
                      !.plugins[i].rxBuffer = <<>>]
  IN IF p.kind = "yaesu"
       THEN IF isOpen(w, p.socket)
              THEN [portWrite(w1, p.socket, "AI1;", "initialPoll", "direct")
                      EXCEPT !.plugins[i].pollLeaked = IF p.pollTimer THEN @ + 1 ELSE @,
                             !.plugins[i].pollTimer = TRUE]
              ELSE w1
       ELSE usbStartPolling(w1, i)

\* The callback of the oldest serialPort.write not yet called back: with an error nothing
\* follows, else drain is called (write() and the AI1; write); the IF; writes drain either way.
usbWriteCallback(w, s, err) ==
  LET k == w.socks[s].acked + 1 IN
  [w EXCEPT !.socks[s].acked = k,
            !.socks[s].tx[k].then = IF err /\ w.socks[s].tx[k].data \in {"AI1;", "poll", "set"} THEN "failed" ELSE @]

\* The drain callback of the oldest write that was called back: after AI1; the 300 ms timer
\* of the initial state poll is armed.
usbDrainCallback(w, s) ==
  LET k == w.socks[s].drained + 1
      i == w.socks[s].owner
  IN [w EXCEPT !.socks[s].drained = k,
               !.plugins[i].ifTimer = IF w.socks[s].tx[k].then = "initialPoll" THEN @ + 1 ELSE @]

\* The 300 ms timer: the initial IF; poll.
usbInitialPoll(w, i) ==
  LET p == w.plugins[i]
      w1 == [w EXCEPT !.plugins[i].ifTimer = @ - 1]
  IN IF isOpen(w, p.socket) THEN portWrite(w1, p.socket, "IF;", "drain", "direct") ELSE w1

usbConnect(w, i) ==
  IF ~w.config.serialPort THEN w
  ELSE
    LET p == w.plugins[i]
        w1 == IF isOpen(w, p.socket) THEN closePort(w, p.socket) ELSE w
        w2 == [dropPortRef(w1, i) EXCEPT !.plugins[i].wasExplicitlyDisconnected = FALSE,
                                         !.plugins[i].rxBuffer = <<>>, !.plugins[i].rxBinaryBuffer = <<>>]
    IN [w2 EXCEPT !.socks[NewSock(w2, i)] = [FreeSlot EXCEPT !.owner = i, !.status = "connecting"],
                  !.plugins[i].socket = NewSock(w2, i)]

\* The open callback with an error: a retry is scheduled.
usbOnOpenError(w, i, s) ==
  LET w1 == updateState([w EXCEPT !.socks[s].status = "failed"], i, "connected", FALSE)
      w2 == [w1 EXCEPT !.plugins[i] = armReconnect(@)]
  IN IF w2.plugins[i].socket = s THEN w2 ELSE [w2 EXCEPT !.socks[s] = FreeSlot]

\* The open callback without error.  serialPort.set is called on the variable serialPort:
\* when disconnect() has set it to null the callback throws at that line, and nothing catches
\* it.  The library runs the callback in a promise reaction, so the outcome is the runtime's
\* treatment of an unhandled rejection: the process ends (fatal) or only the callback does.
usbOnOpen(w, i, s, fatal) ==
  LET w1 == [w EXCEPT !.socks[s].status = "open"] IN
  IF w.plugins[i].socket = NoSock THEN [w1 EXCEPT !.crashed = fatal]
  ELSE [updateState(w1, i, "connected", TRUE) EXCEPT !.plugins[i].settle = @ + 1]

\* The 'close' handler of port s.
usbOnClose(w, i, s) ==
  LET w1 == usbStopPolling(updateState([w EXCEPT !.socks[s] = FreeSlot], i, "connected", FALSE), i)
      w2 == dropPortRef(w1, i)
  IN IF w.plugins[i].wasExplicitlyDisconnected THEN w2
     ELSE [w2 EXCEPT !.plugins[i] = armReconnect(@)]

usbDisconnect(w, i) ==
  LET p == w.plugins[i]
      w1 == [w EXCEPT !.plugins[i] = clearReconnect([@ EXCEPT !.wasExplicitlyDisconnected = TRUE])]
      w2 == usbStopPolling(w1, i)
      w3 == IF isOpen(w2, p.socket) THEN closePort(w2, p.socket) ELSE w2
  IN updateState(dropPortRef(w3, i), i, "connected", FALSE)

\* ------------------------------------------------------------- plugin-registry.js
NullId == ""

\* descriptor.create(config, services): the closure variables of a new instance.
create(w, j, id) == [w EXCEPT !.plugins[j] = [NoPlugin EXCEPT !.kind = id]]

connectOf(w, i) ==
  IF w.plugins[i].kind = "rigctld" THEN rigctldConnect(w, i) ELSE usbConnect(w, i)

\* History: where instance i stands in its connection life cycle.
Phase(w, i) ==
  LET p == w.plugins[i] IN
  IF \E s \in Sock : w.socks[s].owner = i /\ w.socks[s].status = "connecting" THEN "connecting"
  ELSE IF p.socket # NoSock /\ w.socks[p.socket].status = "open"
    THEN IF p.settle > 0 THEN "settling" ELSE "connected"
  ELSE IF p.reconnectTimer THEN "retry"
  ELSE "idle"

\* instance.disconnect(); disconnectedIn records the phase in which it was called.
disconnectOf(w, i) ==
  LET w1 == IF w.plugins[i].kind = "rigctld" THEN rigctldDisconnect(w, i) ELSE usbDisconnect(w, i)
  IN [w1 EXCEPT !.plugins[i].disconnectedIn = Phase(w, i)]

\* The instance the next create() returns.
Created(w) == {i \in Inst : w.plugins[i].kind # "none"}
NextInst(w) == Cardinality(Created(w)) + 1

Ev(name, i) == [ev |-> name, inst |-> i]

switchPluginNoDisconnect(w, id) ==
  LET w0 == [w EXCEPT !.regTrace = <<Ev("begin", w.instance)>>]
      w1 == IF w0.instance # 0
              THEN [w0 EXCEPT !.instance = 0, !.activeId = NullId,
                              !.regTrace = @ \o <<Ev("clear", 0)>>]
              ELSE w0
      j == NextInst(w)
  IN IF id = "" \/ id = "none" THEN w1
     ELSE IF id \notin RegisteredIds THEN w1
     ELSE LET w2 == [create(w1, j, id) EXCEPT !.instance = j, !.activeId = id,
                                              !.regTrace = @ \o <<Ev("create", j)>>]
          IN [connectOf(w2, j) EXCEPT !.regTrace = @ \o <<Ev("connect", j)>>]

\* switchPlugin(id).  No create() or connect() of the plugins modelled here throws before
\* its first asynchronous step.
switchPlugin(w, id) ==
  LET w0 == [w EXCEPT !.regTrace = <<Ev("begin", w.instance)>>]
      w1 == IF w0.instance # 0
              THEN [disconnectOf(w0, w0.instance) EXCEPT !.instance = 0, !.activeId = NullId,
                         !.regTrace = @ \o <<Ev("disconnect", w0.instance), Ev("clear", 0)>>]
              ELSE w0
      j == NextInst(w)
  IN IF id = "" \/ id = "none" THEN w1
     ELSE IF id \notin RegisteredIds THEN w1
     ELSE LET w2 == [create(w1, j, id) EXCEPT !.instance = j, !.activeId = id,
                                              !.regTrace = @ \o <<Ev("create", j)>>]
          IN [connectOf(w2, j) EXCEPT !.regTrace = @ \o <<Ev("connect", j)>>]

\* connectActive()
connectActive(w) ==
  IF w.config.type = "" \/ w.config.type = "none" THEN w ELSE switchPlugin(w, w.config.type)

\* ------------------------------------------------------------- inputs
\* Radio types a configuration names: a USB family, rigctld, none, and an id no plugin has.
\* (The USB families share the life cycle below; they differ in startWithPreamble.)
TypeInputs == {"none", "rigctld", "kenwood", "bogus"}
\* Bodies of POST /api/config: a radio object with any of its fields.
ConfigBodies ==
  {[type |-> t] : t \in TypeInputs} \cup [type : TypeInputs, serialPort : {TRUE}]

InitState == [connected |-> FALSE, freq |-> 0, mode |-> <<>>, width |-> 0, ptt |-> FALSE, lastUpdate |-> 0]
InitRig == [freq |-> 7, mode |-> <<"U", "S", "B">>, width |-> 24, ptt |-> FALSE]
\* config.js: DEFAULT_CONFIG.port, DEFAULT_CONFIG.radio; no file has been saved yet.
DefaultPort == 5555
DefaultRadio == [type |-> "none", serialPort |-> FALSE, pttEnabled |-> FALSE]
NoFile == [exists |-> FALSE, port |-> DefaultPort, radio |-> DefaultRadio]
\* A request body without a radio object.
NoRadio == [type |-> "absent"]
\* The sockets of the rig-control clients: a net.Socket or a WebSocket.
Link == 1..MaxLinks
FreeLink == [owner |-> "", status |-> "free", out |-> <<>>, deliberate |-> FALSE]
\* new FlexRadioClient(config), with config.autoReconnect unset and slice 0.
NoHandle == <<"null">>
NewFlex ==
  [socket |-> NoSock, connected |-> FALSE, handle |-> NoHandle, buffer |-> <<>>, commandQueue |-> <<>>,
   sequenceNumber |-> 0, pendingCommands |-> {}, reconnectTimer |-> FALSE, reconnectLeaked |-> 0,
   autoReconnect |-> TRUE, invoked |-> <<>>, dropped |-> {}]
\* new TCIClient(config), with config.autoReconnect unset, trx 0 and vfo 0.
NewTci ==
  [ws |-> NoSock, connected |-> FALSE, reconnectTimer |-> FALSE, reconnectLeaked |-> 0, autoReconnect |-> TRUE,
   protocolVersion |-> <<>>, deviceName |-> <<>>, message |-> <<>>, emitted |-> <<>>]
NoWire == [stream |-> <<>>, pos |-> 0, cuts |-> {}, carry |-> <<>>, parsed |-> <<>>]
NoHttp == [route |-> "", code |-> 0, freq |-> 0, calls |-> <<>>, missing |-> FALSE]

NoCall == [method |-> "", ok |-> FALSE, invoked |-> <<>>]

InitCommon ==
  /\ instance = 0
  /\ activeId = NullId
  /\ state = InitState
  /\ plugins = [i \in Inst |-> NoPlugin]
  /\ socks = [s \in Sock |-> FreeSlot]
  /\ rig = InitRig
  /\ now = 1
  /\ crashed = FALSE
  /\ lastWrite = FALSE
  /\ regTrace = <<>>
  /\ http = NoHttp
  /\ booted = FALSE
  /\ called = NoCall
  /\ subs = <<>>
  /\ streams = [c \in Client |-> NoStream]
  /\ port = DefaultPort
  /\ disk = NoFile
  /\ links = [l \in Link |-> FreeLink]
  /\ flex = NewFlex
  /\ tci = NewTci
  /\ wire = NoWire

\* ------------------------------------------------------------- actions
Running == booted /\ ~crashed

\* switchPlugin(id) can run within the bounds: an instance and a socket are left for it.
CanSwitch(w, id) == id \in RegisteredIds => (NextInst(w) \in Inst /\ HasFree(w))

\* rig-bridge.js at start: registry.connectActive().
ConnectActive ==
  /\ ~booted /\ ~crashed
  /\ CanSwitch(World, config.type)
  /\ Commit(connectActive(World))
  /\ booted' = TRUE
  /\ UNCHANGED <<rig, http>>

\* POST /api/config: the radio fields are merged, then registry.switchPlugin(config.radio.type).
mergeRadio(cfg, body) == [k \in DOMAIN cfg |-> IF k \in DOMAIN body THEN body[k] ELSE cfg[k]]

\* saveConfig(): the config object is written to rig-bridge-config.json.
saveConfig(w) == [w EXCEPT !.disk = [exists |-> TRUE, port |-> w.port, radio |-> w.config]]

\* The handler of POST /api/config.  req.port = 0 is a body without port; req.radio = NoRadio is
\* a body without radio.
postConfigReplacesRadio(w, req) ==
  LET w1 == IF req.port # 0 THEN [w EXCEPT !.port = req.port] ELSE w
      w2 == IF req.radio # NoRadio
              THEN [w1 EXCEPT !.config = [k \in DOMAIN w.config |->
                                             IF k \in DOMAIN req.radio THEN req.radio[k] ELSE DefaultRadio[k]]]
              ELSE w1
  IN switchPlugin(saveConfig(w2), w2.config.type)

postConfig(w, req) ==
  LET w1 == IF req.port # 0 THEN [w EXCEPT !.port = req.port] ELSE w
      w2 == IF req.radio # NoRadio THEN [w1 EXCEPT !.config = mergeRadio(w.config, req.radio)] ELSE w1
  IN switchPlugin(saveConfig(w2), w2.config.type)

PostConfigRequest(req) ==
  /\ Running
  /\ CanSwitch(World, IF req.radio # NoRadio THEN mergeRadio(config, req.radio).type ELSE config.type)
  /\ Commit(postConfig(World, req))
  /\ http' = [route |-> "/api/config", code |-> 200, freq |-> 0, calls |-> <<"switchPlugin">>, missing |-> FALSE]
  /\ UNCHANGED <<rig, booted>>

\* A request whose body has a radio object and no port.
PostConfig(body) == PostConfigRequest([port |-> 0, radio |-> body])

IsRig(s) == socks[s].owner # 0 /\ plugins[socks[s].owner].kind = "rigctld"
IsUsb(s) == socks[s].owner # 0 /\ plugins[socks[s].owner].kind \in UsbTypes

\* The TCP connection of socket s is established.
RigConnectOk(s) ==
  /\ Running /\ IsRig(s) /\ socks[s].status = "connecting"
  /\ Commit(rigctldOnConnect([World EXCEPT !.socks[s].status = "open"], socks[s].owner, s))
  /\ UNCHANGED <<rig, http, booted>>

\* 'error' on socket s (refused, reset): the handler destroys it.
RigSockError(s) ==
  /\ Running /\ IsRig(s) /\ socks[s].status \in {"connecting", "open"}
  /\ Commit(destroy(World, s))
  /\ UNCHANGED <<rig, http, booted>>

\* The daemon ends the connection of socket s: the socket closes.
RigRemoteClose(s) ==
  /\ Running /\ IsRig(s) /\ socks[s].status = "open"
  /\ Commit([World EXCEPT !.socks[s].status = "closing", !.socks[s].out = <<>>, !.socks[s].inb = <<>>])
  /\ UNCHANGED <<rig, http, booted>>

\* 'close' on socket s.
RigCloseEvent(s) ==
  /\ Running /\ IsRig(s) /\ socks[s].status = "closing"
  /\ Commit(rigctldOnClose(World, socks[s].owner, s))
  /\ UNCHANGED <<rig, http, booted>>

\* A reconnect timer of instance i expires: connect().  The 500 ms settle timers armed
\* before it have expired by then.
fireReconnect(p) ==
  IF p.reconnectTimer THEN [p EXCEPT !.reconnectTimer = FALSE]
  ELSE [p EXCEPT !.reconnectLeaked = @ - 1]

ReconnectFire(i) ==
  /\ Running /\ plugins[i].kind # "none"
  /\ plugins[i].reconnectTimer \/ plugins[i].reconnectLeaked > 0
  /\ plugins[i].settle = 0
  /\ HasFree(World)
  /\ Commit(connectOf([World EXCEPT !.plugins[i] = fireReconnect(@)], i))
  /\ UNCHANGED <<rig, http, booted>>

\* serialPort.open calls back without error.
UsbOpenOk(s) ==
  /\ Running /\ IsUsb(s) /\ socks[s].status = "connecting"
  /\ \E fatal \in BOOLEAN : Commit(usbOnOpen(World, socks[s].owner, s, fatal))
  /\ UNCHANGED <<rig, http, booted>>

\* serialPort.open calls back with an error.
UsbOpenFail(s) ==
  /\ Running /\ IsUsb(s) /\ socks[s].status = "connecting"
  /\ Commit(usbOnOpenError(World, socks[s].owner, s))
  /\ UNCHANGED <<rig, http, booted>>

\* The device of port s goes away (cable pulled).
UsbPortLost(s) ==
  /\ Running /\ IsUsb(s) /\ socks[s].status = "open"
  /\ Commit(closePort(World, s))
  /\ UNCHANGED <<rig, http, booted>>

\* 'close' on port s.
UsbCloseEvent(s) ==
  /\ Running /\ IsUsb(s) /\ socks[s].status = "closing"
  /\ Commit(usbOnClose(World, socks[s].owner, s))
  /\ UNCHANGED <<rig, http, booted>>

\* The settle timer of instance i expires.
SettleFire(i) ==
  /\ Running /\ plugins[i].settle > 0
  /\ Commit(startWithPreamble(World, i))
  /\ UNCHANGED <<rig, http, booted>>

\* ------------------------------------------------------------- lifecycle specification
\* The registry and the connection life cycle of the plugins; no rig traffic.
InitLife ==
  /\ InitCommon
  /\ config \in [type : TypeInputs, serialPort : BOOLEAN, pttEnabled : {FALSE}]

NextLife ==
  \/ ConnectActive
  \/ \E body \in ConfigBodies : PostConfig(body)
  \/ \E s \in Sock : RigConnectOk(s)
  \/ \E s \in Sock : RigSockError(s)
  \/ \E s \in Sock : RigRemoteClose(s)
  \/ \E s \in Sock : RigCloseEvent(s)
  \/ \E i \in Inst : ReconnectFire(i)
  \/ \E s \in Sock : UsbOpenOk(s)
  \/ \E s \in Sock : UsbOpenFail(s)
  \/ \E s \in Sock : UsbPortLost(s)
  \/ \E s \in Sock : UsbCloseEvent(s)
  \/ \E i \in Inst : SettleFire(i)

SpecLife == InitLife /\ [][NextLife]_vars

\* ------------------------------------------------------------- registry: one live instance
Owned(i) == {s \in Sock : socks[s].owner = i}
Holding(i) == \E s \in Owned(i) : socks[s].status \in {"connecting", "open"}
\* Instances created by the registry on which it has not called disconnect().
LiveInstances == {i \in Inst : plugins[i].kind # "none" /\ plugins[i].disconnectedIn = ""}

\* C1: the registry keeps at most one live instance: the instances it has created and not
\* disconnected are the one it references (or none), and within one switchPlugin call the
\* old instance's disconnect() and the clearing of the reference come before create().
C1_OneLiveInstance ==
  /\ LiveInstances = (IF instance = 0 THEN {} ELSE {instance})
  /\ \A k \in 1..Len(regTrace) :
       (regTrace[k].ev = "create" /\ regTrace[1].inst # 0) =>
         \E a \in 1..k : \E b \in 1..k :
            /\ a < b /\ b < k
            /\ regTrace[a] = Ev("disconnect", regTrace[1].inst)
            /\ regTrace[b].ev = "clear"

\* A switch from one active instance to a new one has happened.
C1_Witness ==
  /\ Len(regTrace) >= 1 /\ regTrace[1].inst # 0
  /\ \E k \in 1..Len(regTrace) : regTrace[k].ev = "create"
  /\ instance # 0

\* C2: never two plugin instances hold an open or connecting socket or port at the same time.
C2_OneHolder == Cardinality({i \in Inst : Holding(i)}) <= 1

\* C3: every updateState call and every assignment to the state comes from the instance that
\* is the registry's active instance at that moment.
C3_OnlyActiveWrites == ~lastWrite

\* C4: a rigctld instance whose disconnect() was called while connected, and whose socket's
\* 'close' event has been delivered, has no reconnect timer armed and no socket.
C4_NoReconnectAfterDisconnect ==
  \A i \in Inst :
    (plugins[i].kind = "rigctld" /\ plugins[i].disconnectedIn = "connected"
       /\ ~\E s \in Owned(i) : socks[s].status = "closing")
    => (~plugins[i].reconnectTimer /\ plugins[i].reconnectLeaked = 0 /\ Owned(i) = {})

\* C5: once disconnect() has been called on a USB instance, in any phase, no retry is
\* scheduled by it.
C5_NoRetryAfterDisconnect ==
  \A i \in Inst :
    (plugins[i].kind \in UsbTypes /\ plugins[i].disconnectedIn # "")
    => (~plugins[i].reconnectTimer /\ plugins[i].reconnectLeaked = 0)

\* ------------------------------------------------------------- reconnection
\* The timers of the event loop expire: a pending timer is not starved.
FairLife ==
  /\ SpecLife
  /\ \A i \in Inst : WF_vars(ReconnectFire(i))
  /\ \A i \in Inst : WF_vars(SettleFire(i))

NeverDisconnected(i) == plugins[i].kind # "none" /\ plugins[i].disconnectedIn = ""
RetryArmed(i) == plugins[i].reconnectTimer /\ plugins[i].reconnectLeaked = 0
Connecting(i) == \E s \in Owned(i) : socks[s].status = "connecting"

\* A connection loss of socket or port s: its 'close' event, or its failed open.
LossEvent(s) == RigCloseEvent(s) \/ UsbCloseEvent(s) \/ UsbOpenFail(s)

\* C6: on an instance on which disconnect() has not been called, every connection loss (a
\* 'close' event, also the one that follows a socket error, or a failed open) sets
\* connected=false and leaves exactly one reconnect timer armed; the expiry of that timer
\* starts a connect attempt; and an armed timer leads to a connect attempt unless
\* disconnect() is called first.
C6_LossArmsOneRetry ==
  /\ [][\A s \in Sock :
          (LossEvent(s) /\ NeverDisconnected(socks[s].owner))
          => (~state'.connected /\ plugins'[socks[s].owner].reconnectTimer
                /\ plugins'[socks[s].owner].reconnectLeaked = 0)]_vars
  /\ [][\A i \in Inst :
          (ReconnectFire(i) /\ NeverDisconnected(i))
          => (\E s \in Sock : socks'[s].owner = i /\ socks'[s].status = "connecting")]_vars
  /\ \A i \in Inst :
       (NeverDisconnected(i) /\ RetryArmed(i)) ~> (Connecting(i) \/ ~NeverDisconnected(i))

\* The same, as long as the process runs.
LossArmsOneRetryWhileRunning ==
  /\ [][\A s \in Sock :
          (LossEvent(s) /\ NeverDisconnected(socks[s].owner))
          => (~state'.connected /\ plugins'[socks[s].owner].reconnectTimer
                /\ plugins'[socks[s].owner].reconnectLeaked = 0)]_vars
  /\ [][\A i \in Inst :
          (ReconnectFire(i) /\ NeverDisconnected(i))
          => (\E s \in Sock : socks'[s].owner = i /\ socks'[s].status = "connecting")]_vars
  /\ \A i \in Inst :
       (NeverDisconnected(i) /\ RetryArmed(i)) ~> (Connecting(i) \/ ~NeverDisconnected(i) \/ crashed)

\* Sanity: an instance has at most one socket or port object in flight, and a slot is always
\* left for a connect().
OneSockPerInstance == \A i \in Inst : Cardinality(Owned(i)) <= 1

\* ------------------------------------------------------------- server.js: command endpoints
\* A body field that is absent (undefined).
Undefined == 0 - 1

\* registry.dispatch(method, ...args): the USB codecs are not part of this model.
dispatchSetFreq(w, hz) ==
  IF w.instance = 0 THEN w
  ELSE IF w.plugins[w.instance].kind = "rigctld" THEN rigctldSetFreq(w, w.instance, hz) ELSE w
dispatchSetMode(w, mode) ==
  IF w.instance = 0 THEN w
  ELSE IF w.plugins[w.instance].kind = "rigctld" THEN rigctldSetMode(w, w.instance, mode) ELSE w
dispatchSetPTT(w, on) ==
  IF w.instance = 0 THEN w
  ELSE IF w.plugins[w.instance].kind = "rigctld" THEN rigctldSetPTT(w, w.instance, on) ELSE w

\* The sends one more command may add on the active connection stay within MaxSent.
Room(n) == instance # 0 => Len(plugins[instance].sent) + n <= MaxSent

\* POST /freq {freq}: !freq holds for an absent field and for 0.
PostFreq(freq) ==
  /\ Running /\ Room(1)
  /\ IF freq = Undefined \/ freq = 0
       THEN /\ http' = [route |-> "/freq", code |-> 400, freq |-> 0, calls |-> <<>>, missing |-> (freq = Undefined)]
            /\ UNCHANGED <<instance, activeId, config, state, plugins, socks, now, crashed, lastWrite, port, disk, links, flex, tci, wire, regTrace, called, subs, streams>>
       ELSE /\ Commit(dispatchSetFreq(World, freq))
            /\ http' = [route |-> "/freq", code |-> 200, freq |-> 0, calls |-> <<"setFreq">>, missing |-> FALSE]
  /\ UNCHANGED <<rig, booted>>

\* POST /mode {mode}: !mode holds for an absent field, which the empty mode stands for.
PostMode(mode) ==
  /\ Running /\ Room(1)
  /\ IF mode = <<>>
       THEN /\ http' = [route |-> "/mode", code |-> 400, freq |-> 0, calls |-> <<>>, missing |-> TRUE]
            /\ UNCHANGED <<instance, activeId, config, state, plugins, socks, now, crashed, lastWrite, port, disk, links, flex, tci, wire, regTrace, called, subs, streams>>
       ELSE /\ Commit(dispatchSetMode(World, mode))
            /\ http' = [route |-> "/mode", code |-> 200, freq |-> 0, calls |-> <<"setMode">>, missing |-> FALSE]
  /\ UNCHANGED <<rig, booted>>

\* The bodies of POST /ptt: the field absent, false, true.
PttBodies == {[has |-> FALSE, ptt |-> FALSE], [has |-> TRUE, ptt |-> FALSE], [has |-> TRUE, ptt |-> TRUE]}

\* POST /ptt {ptt}: refused when ptt is truthy and config.radio.pttEnabled is not; an absent
\* ptt is falsy and goes on as !!ptt = false.
PostPtt(body) ==
  /\ Running /\ Room(1)
  /\ IF body.ptt /\ ~config.pttEnabled
       THEN /\ http' = [route |-> "/ptt", code |-> 403, freq |-> 0, calls |-> <<>>, missing |-> FALSE]
            /\ UNCHANGED <<instance, activeId, config, state, plugins, socks, now, crashed, lastWrite, port, disk, links, flex, tci, wire, regTrace, called, subs, streams>>
       ELSE /\ Commit(dispatchSetPTT(World, body.ptt))
            /\ http' = [route |-> "/ptt", code |-> 200, freq |-> 0, calls |-> <<"setPTT">>, missing |-> ~body.has]
  /\ UNCHANGED <<rig, booted>>

\* GET /status
GetStatus ==
  /\ Running
  /\ http' = [route |-> "/status", code |-> 200, freq |-> state.freq, calls |-> <<>>, missing |-> FALSE]
  /\ UNCHANGED <<instance, activeId, config, state, plugins, socks, now, crashed, lastWrite, port, disk, links, flex, tci, wire, regTrace, rig, booted, called, subs, streams>>

\* The poll interval timer of instance i fires.
PollTick(i) ==
  /\ Running /\ plugins[i].kind = "rigctld" /\ plugins[i].pollTimer
  /\ Len(plugins[i].sent) + 3 <= MaxSent
  /\ Commit(pollTick(World, i))
  /\ UNCHANGED <<rig, http, booted>>

\* ------------------------------------------------------------- the rigctld daemon
\* The daemon reads one command and answers it with one line: f with the frequency, m with
\* "<mode> <passband>" (the form handleResponse takes apart), t with 0 or 1, a set command
\* with RPRT 0 after storing the value.
daemonAnswer(r, cmd) ==
  IF cmd = <<"f">> THEN ToDecimal(r.freq)
  ELSE IF cmd = <<"m">> THEN r.mode \o <<SP>> \o ToDecimal(r.width)
  ELSE IF cmd = <<"t">> THEN (IF r.ptt THEN <<"1">> ELSE <<"0">>)
  ELSE <<"R", "P", "R", "T", " ", "0">>

daemonStore(r, cmd) ==
  IF Head(cmd) = "F" THEN [r EXCEPT !.freq = parseInt(SubSeq(cmd, 3, Len(cmd)))]
  ELSE IF Head(cmd) = "M" THEN [r EXCEPT !.mode = split(cmd, SP)[2]]
  ELSE IF Head(cmd) = "T" THEN [r EXCEPT !.ptt = (cmd[3] = "1")]
  ELSE r

DaemonReply(s) ==
  /\ Running /\ IsRig(s) /\ socks[s].status = "open" /\ socks[s].out # <<>>
  /\ rig' = daemonStore(rig, Head(socks[s].out))
  /\ socks' = [socks EXCEPT ![s].out = Tail(@),
                            ![s].inb = @ \o daemonAnswer(rig', Head(socks[s].out)) \o <<NL>>]
  /\ UNCHANGED <<instance, activeId, config, state, plugins, now, crashed, lastWrite, port, disk, links, flex, tci, wire, regTrace, http, booted, called, subs, streams>>

\* A 'data' event on socket s carries the next k bytes of the stream.  Data reaches the
\* handler only once the connect callback has run.
Data(s, k) ==
  /\ Running /\ IsRig(s) /\ socks[s].status = "open"
  /\ k \in 1..Len(socks[s].inb)
  /\ Commit(onData([World EXCEPT !.socks[s].inb = SubSeq(@, k + 1, Len(@)),
                                 !.socks[s].torn = @ \/ socks[s].inb[k] # NL],
                   socks[s].owner, SubSeq(socks[s].inb, 1, k)))
  /\ UNCHANGED <<rig, http, booted>>

\* ------------------------------------------------------------- rigctld traffic specification
\* One rigctld plugin, started at boot, with the Gateway commands, the poller and the daemon.
FreqInputs == {Undefined, 0, 14}
ModeInputs == {<<>>, <<"C", "W">>}

InitTraffic ==
  /\ InitCommon
  /\ config \in [type : {"rigctld"}, serialPort : {FALSE}, pttEnabled : {FALSE}]

NextTraffic ==
  \/ ConnectActive
  \/ \E s \in Sock : RigConnectOk(s)
  \/ \E i \in Inst : PollTick(i)
  \/ \E f \in FreqInputs : PostFreq(f)
  \/ \E m \in ModeInputs : PostMode(m)
  \/ \E b \in PttBodies : PostPtt(b)
  \/ GetStatus
  \/ \E s \in Sock : DaemonReply(s)
  \/ \E s \in Sock : \E k \in 1..Len(socks[s].inb) : Data(s, k)

SpecTraffic == InitTraffic /\ [][NextTraffic]_vars

\* ------------------------------------------------------------- rigctld request queue
RigInstances == {i \in Inst : plugins[i].kind = "rigctld"}

RECURSIVE Lines(_)
Lines(bytes) == IF bytes = <<>> THEN 0 ELSE (IF Head(bytes) = NL THEN 1 ELSE 0) + Lines(Tail(bytes))

IsPrefix(a, b) == Len(a) <= Len(b) /\ a = SubSeq(b, 1, Len(a))

SendOrder ==
  /\ \A i \in RigInstances :
       LET p == plugins[i] IN
       /\ p.sent = p.written \o p.queue
       /\ p.socket # NoSock /\ socks[p.socket].status = "open"
            => /\ Len(socks[p.socket].out) <= Len(p.written)
               /\ socks[p.socket].out
                    = SubSeq(p.written, Len(p.written) - Len(socks[p.socket].out) + 1, Len(p.written))

\* C8: while the connection is open the commands written are, in order, the commands passed to
\* send(), Gateway commands and polls alike, followed by the ones still queued (nothing dropped,
\* duplicated or reordered); the daemon's unread input is the tail of what was written; and a
\* poll tick adds f, m, t next to one another to the sequence of sends.
C8_WrittenInSendOrder ==
  /\ []SendOrder
  /\ [][\A i \in Inst : PollTick(i) => plugins'[i].sent = plugins[i].sent \o << <<"f">>, <<"m">>, <<"t">> >>]_vars

\* A Gateway command was sent while a poll's requests were still queued, and was written after them.
C8_Witness ==
  \E i \in RigInstances :
    /\ Len(plugins[i].written) = 4
    /\ SubSeq(plugins[i].sent, 1, 3) = << <<"f">>, <<"m">>, <<"t">> >>
    /\ Head(plugins[i].sent[4]) = "F"

\* The connection of instance i has carried one poll and nothing else, and all of it is answered.
PollAnswered(i) ==
  /\ plugins[i].sent = << <<"f">>, <<"m">>, <<"t">> >>
  /\ plugins[i].completed = plugins[i].sent

\* C9: with f, m, t submitted together, the first reply line sets freq, the second mode and
\* width, the third ptt, however the reply bytes are cut into data events.
C9_PollRepliesInOrder ==
  \A i \in RigInstances :
    PollAnswered(i) => /\ state.freq = rig.freq
                       /\ state.mode = rig.mode
                       /\ state.width = rig.width
                       /\ state.ptt = rig.ptt

\* The same pairing when every data event ends at the end of a line.
Torn(i) == plugins[i].socket # NoSock /\ socks[plugins[i].socket].torn
PollRepliesInOrderWholeLines ==
  \A i \in RigInstances :
    (PollAnswered(i) /\ ~Torn(i)) => /\ state.freq = rig.freq
                                     /\ state.mode = rig.mode
                                     /\ state.width = rig.width
                                     /\ state.ptt = rig.ptt

\* The last answered request of instance i is an f that follows a set-frequency command for hz
\* with no other set-frequency command in between.
IsSetFreq(cmd) == Head(cmd) = "F"
PolledAfterSet(i, hz) ==
  LET c == plugins[i].completed IN
  /\ c # <<>> /\ c[Len(c)] = <<"f">>
  /\ \E a \in 1..Len(c) :
       /\ c[a] = <<"F", " ">> \o ToDecimal(hz)
       /\ \A b \in (a + 1)..Len(c) : ~IsSetFreq(c[b])

\* C10: after a set-frequency command for hz was written and the daemon, having stored it,
\* answered the next f poll, state.freq (the freq that GET /status returns) is hz.
C10_FreqRoundTrip ==
  \A i \in RigInstances : \A hz \in FreqInputs \ {Undefined} :
    PolledAfterSet(i, hz) => state.freq = hz

FreqRoundTripWholeLines ==
  \A i \in RigInstances : \A hz \in FreqInputs \ {Undefined} :
    (PolledAfterSet(i, hz) /\ ~Torn(i)) => state.freq = hz

\* ------------------------------------------------------------- Gateway specification
\* The command endpoints in front of a registry with no plugin or a rigctld plugin, with PTT
\* enabled or not.
InitGateway ==
  /\ InitCommon
  /\ config \in [type : {"none", "rigctld"}, serialPort : {FALSE}, pttEnabled : BOOLEAN]

NextGateway ==
  \/ ConnectActive
  \/ \E s \in Sock : RigConnectOk(s)
  \/ \E f \in FreqInputs : PostFreq(f)
  \/ \E m \in ModeInputs : PostMode(m)
  \/ \E b \in PttBodies : PostPtt(b)
  \/ GetStatus

SpecGateway == InitGateway /\ [][NextGateway]_vars

\* The active rigctld instance is connected and send(cmd) has been called on it once more.
SentOneMore(cmd) ==
  (instance # 0 /\ plugins[instance].socket # NoSock)
    => plugins'[instance].sent = Append(plugins[instance].sent, cmd)

NothingSent == plugins' = plugins /\ socks' = socks /\ state' = state

\* C11: while config.radio.pttEnabled is false every POST /ptt, for ptt true and for ptt
\* false, is answered 403 and no setPTT reaches the plugin; while it is true the request
\* dispatches setPTT once and is answered with success.
C11_PttGate ==
  [][\A b \in PttBodies :
       PostPtt(b) =>
         IF ~config.pttEnabled
           THEN http'.code = 403 /\ http'.calls = <<>> /\ NothingSent
           ELSE /\ http'.code = 200 /\ http'.calls = <<"setPTT">>
                /\ SentOneMore(IF b.ptt THEN <<"T", " ", "1">> ELSE <<"T", " ", "0">>)]_vars

\* The part of the gate the handler has: ptt true is refused while PTT is disabled, and
\* every request is dispatched once while it is enabled.
PttGateForKeying ==
  [][\A b \in PttBodies :
       PostPtt(b) =>
         IF ~config.pttEnabled /\ b.ptt
           THEN http'.code = 403 /\ http'.calls = <<>> /\ NothingSent
           ELSE /\ http'.code = 200 /\ http'.calls = <<"setPTT">>
                /\ SentOneMore(IF b.ptt THEN <<"T", " ", "1">> ELSE <<"T", " ", "0">>)]_vars

Refused400 == http'.code = 400 /\ http'.calls = <<>> /\ NothingSent

\* C12: each of POST /freq, POST /mode and POST /ptt answers 400 and dispatches nothing when
\* its body field is absent, and otherwise dispatches exactly one command of its kind (a
\* frequency of 0 and a request the PTT gate refuses are left open).
C12_MissingField ==
  [][/\ \A f \in FreqInputs :
          PostFreq(f) => IF f = Undefined THEN Refused400
                         ELSE f = 0 \/ (http'.calls = <<"setFreq">> /\ SentOneMore(<<"F", " ">> \o ToDecimal(f)))
     /\ \A m \in ModeInputs :
          PostMode(m) => IF m = <<>> THEN Refused400
                         ELSE http'.calls = <<"setMode">> /\ SentOneMore(<<"M", " ">> \o m \o <<" ", "0">>)
     /\ \A b \in PttBodies :
          PostPtt(b) => IF ~b.has THEN Refused400
                        ELSE (b.ptt /\ ~config.pttEnabled) \/ http'.calls = <<"setPTT">>]_vars

\* The validation the handlers have: /freq and /mode refuse a falsy field with 400 and
\* dispatch one command otherwise.
FalsyFieldRefused ==
  [][/\ \A f \in FreqInputs :
          PostFreq(f) => IF f = Undefined \/ f = 0 THEN Refused400
                         ELSE http'.calls = <<"setFreq">> /\ SentOneMore(<<"F", " ">> \o ToDecimal(f))
     /\ \A m \in ModeInputs :
          PostMode(m) => IF m = <<>> THEN Refused400
                         ELSE http'.calls = <<"setMode">> /\ SentOneMore(<<"M", " ">> \o m \o <<" ", "0">>)]_vars

\* ------------------------------------------------------------- the connected flag
\* Instance i has a connection: its variable references a socket or port that has been opened
\* and whose 'close' event, if the link has gone, has not been delivered yet.
Established(i) ==
  /\ plugins[i].socket # NoSock
  /\ socks[plugins[i].socket].status \in {"open", "closing"}

\* C13: whenever the state reports connected=true the registry's active instance holds an
\* established connection; so after a failure or a teardown connected stays false until the
\* active instance has connected again.
C13_ConnectedMeansActiveLink ==
  state.connected => (instance # 0 /\ Established(instance))

\* ------------------------------------------------------------- switching with a polled state
\* A rigctld plugin that is polled, and configuration writes that replace it.
InitSwitch ==
  /\ InitCommon
  /\ config \in [type : {"rigctld"}, serialPort : {TRUE}, pttEnabled : {FALSE}]

NextSwitch ==
  \/ ConnectActive
  \/ \E s \in Sock : RigConnectOk(s)
  \/ \E s \in Sock : RigCloseEvent(s)
  \/ \E i \in Inst : PollTick(i)
  \/ \E s \in Sock : DaemonReply(s)
  \/ \E s \in Sock : \E k \in 1..Len(socks[s].inb) : Data(s, k)
  \/ \E body \in ConfigBodies : PostConfig(body)

SpecSwitch == InitSwitch /\ [][NextSwitch]_vars

\* C14: when switchPlugin returns after replacing an active plugin, state.connected is false
\* and freq, mode, width and ptt are what they were before the switch.
C14_SwitchKeepsFields ==
  [][\A body \in ConfigBodies :
       (PostConfig(body) /\ instance # 0)
       => /\ ~state'.connected
          /\ state'.freq = state.freq /\ state'.mode = state.mode
          /\ state'.width = state.width /\ state'.ptt = state.ptt]_vars

\* A connected, polled plugin has been replaced: the polled values are still in the state.
C14_Witness ==
  /\ http.route = "/api/config" /\ Len(regTrace) >= 2 /\ regTrace[2].ev = "disconnect"
  /\ plugins[regTrace[2].inst].disconnectedIn = "connected"
  /\ ~state.connected /\ state.freq = rig.freq /\ state.mode = rig.mode /\ state.width = rig.width

\* ------------------------------------------------------------- switchPlugin with a throwing plugin
\* A plugin method that throws when the registry calls it: none, the old instance's
\* disconnect(), the factory create(), or the new instance's connect().  The throwing method
\* does nothing else.
Faults == {"none", "disconnect", "create", "connect"}

switchPluginFaultyUncaught(w, id, fault) ==
  IF fault = "disconnect" /\ w.instance # 0
    THEN [w EXCEPT !.plugins[w.instance].disconnectedIn = Phase(w, w.instance),
                   !.regTrace = <<Ev("begin", w.instance), Ev("disconnect", w.instance),
                                  Ev("throw", w.instance), Ev("propagate", w.instance)>>]
  ELSE IF fault \in {"create", "connect"} /\ id \in RegisteredIds
    THEN [switchPlugin(w, "none") EXCEPT !.regTrace = @ \o <<Ev("throw", 0), Ev("propagate", 0)>>]
  ELSE switchPlugin(w, id)

\* switchPlugin(id) with its two try blocks: the first catches what disconnect() throws and
\* goes on to clear the reference; the second catches what create() or connect() throws and
\* clears the reference again.
switchPluginFaulty(w, id, fault) ==
  IF fault = "disconnect" /\ w.instance # 0
    THEN LET old == w.instance
             w1 == [w EXCEPT !.plugins[old].disconnectedIn = Phase(w, old),
                             !.instance = 0, !.activeId = NullId]
             w2 == switchPlugin(w1, id)
         IN [w2 EXCEPT !.regTrace = <<Ev("begin", old), Ev("disconnect", old), Ev("throw", old),
                                      Ev("caught", old), Ev("clear", 0)>> \o Tail(w2.regTrace)]
  ELSE IF fault = "create" /\ id \in RegisteredIds
    THEN [switchPlugin(w, "none") EXCEPT !.regTrace = @ \o <<Ev("throw", 0), Ev("caught", 0), Ev("clear", 0)>>]
  ELSE IF fault = "connect" /\ id \in RegisteredIds
    THEN LET w1 == switchPlugin(w, "none")
             j == NextInst(w)
         IN [create(w1, j, id) EXCEPT !.regTrace = @ \o <<Ev("create", j), Ev("throw", j),
                                                         Ev("caught", j), Ev("clear", 0)>>]
  ELSE switchPlugin(w, id)

\* Plugin ids a configuration write may name: empty, none, unregistered, registered.
IdInputs == {"", "none", "bogus", "rigctld"}

\* POST /api/config {type} with a plugin that throws as fault says.
PostConfigFaulty(id, fault) ==
  /\ Running
  /\ CanSwitch(World, id)
  /\ Commit(switchPluginFaulty([World EXCEPT !.config.type = id], id, fault))
  /\ http' = [route |-> "/api/config", code |-> 200, freq |-> 0, calls |-> <<"switchPlugin">>, missing |-> FALSE]
  /\ UNCHANGED <<rig, booted>>

InitFaulty ==
  /\ InitCommon
  /\ config \in [type : {"none", "rigctld"}, serialPort : {FALSE}, pttEnabled : {FALSE}]

NextFaulty ==
  \/ ConnectActive
  \/ \E id \in IdInputs : \E fault \in Faults : PostConfigFaulty(id, fault)
  \/ \E s \in Sock : RigConnectOk(s)
  \/ \E s \in Sock : RigSockError(s)
  \/ \E s \in Sock : RigCloseEvent(s)
  \/ \E i \in Inst : ReconnectFire(i)
  \/ \E i \in Inst : PollTick(i)

SpecFaulty == InitFaulty /\ [][NextFaulty]_vars

HasEv(name) == \E k \in 1..Len(regTrace) : regTrace[k].ev = name

\* The latest switchPlugin call started no plugin: its id was empty, none or unregistered, or
\* create() or connect() threw.
SwitchFailed == regTrace # <<>> /\ (~HasEv("connect") \/ regTrace[Len(regTrace)].ev = "clear")

\* C15: switchPlugin never propagates an exception of disconnect(), create() or connect();
\* and when the id is empty, none or unregistered, or create() or connect() throws, the
\* registry has no active plugin (no instance, activeId null, so dispatch fails), and the old
\* instance has had its disconnect() called and is no longer referenced.
C15_SwitchNeverThrows ==
  /\ ~HasEv("propagate")
  /\ HasEv("throw") => HasEv("caught")
  /\ SwitchFailed =>
       /\ instance = 0 /\ activeId = NullId
       /\ regTrace[1].inst # 0 => /\ plugins[regTrace[1].inst].disconnectedIn # ""
                                  /\ HasEv("disconnect")

\* A switch away from an active plugin in which a plugin method threw.
C15_Witness ==
  /\ regTrace # <<>> /\ regTrace[1].inst # 0 /\ HasEv("throw") /\ instance = 0

\* ------------------------------------------------------------- configuration errors
UnknownId(id) == id \notin RegisteredIds \cup {"", "none"}

\* C16: a configuration write that names an unknown plugin id is answered with a 4xx status
\* and leaves the active plugin as it was: still the active instance, its connection and the
\* state untouched.
C16_UnknownIdRejected ==
  [][\A body \in ConfigBodies :
       (PostConfig(body) /\ UnknownId(mergeRadio(config, body).type))
       => /\ http'.code \in 400..499
          /\ instance' = instance /\ activeId' = activeId
          /\ plugins' = plugins /\ socks' = socks /\ state' = state]_vars

\* ------------------------------------------------------------- PluginRegistry.dispatch
\* The functions an instance object has: { connect, disconnect, setFreq, setMode, setPTT }.
Methods == {"connect", "disconnect", "setFreq", "setMode", "setPTT"}

dispatchInvokesTwice(w, method, arg) ==
  LET ok == w.instance # 0 /\ method \in Methods
      w1 == IF ~ok THEN w
            ELSE IF method = "setFreq" THEN dispatchSetFreq(dispatchSetFreq(w, arg), arg)
            ELSE IF method = "setMode" THEN dispatchSetMode(dispatchSetMode(w, arg), arg)
            ELSE IF method = "setPTT" THEN dispatchSetPTT(dispatchSetPTT(w, arg), arg)
            ELSE w
  IN [w1 EXCEPT !.called = [method |-> method, ok |-> ok,
                            invoked |-> IF ok THEN <<[method |-> method, arg |-> arg],
                                                     [method |-> method, arg |-> arg]>> ELSE <<>>]]

\* dispatch(method, ...args): false without an instance or without such a function on it;
\* otherwise the function is called with the arguments and true is returned.
dispatch(w, method, arg) ==
  LET ok == w.instance # 0 /\ method \in Methods
      w1 == IF ~ok THEN w
            ELSE IF method = "setFreq" THEN dispatchSetFreq(w, arg)
            ELSE IF method = "setMode" THEN dispatchSetMode(w, arg)
            ELSE IF method = "setPTT" THEN dispatchSetPTT(w, arg)
            ELSE w
  IN [w1 EXCEPT !.called = [method |-> method, ok |-> ok,
                            invoked |-> IF ok THEN <<[method |-> method, arg |-> arg]>> ELSE <<>>]]

\* A caller of the registry calls dispatch(method, arg).
Dispatch(method, arg) ==
  /\ Running /\ Room(1)
  /\ Commit(dispatch(World, method, arg))
  /\ UNCHANGED <<rig, http, booted>>

InitDispatch ==
  /\ InitCommon
  /\ config \in [type : {"none", "rigctld"}, serialPort : {FALSE}, pttEnabled : {FALSE}]

\* Method names and arguments: the three commands, and a name no instance has.
NextDispatch ==
  \/ ConnectActive
  \/ \E s \in Sock : RigConnectOk(s)
  \/ \E s \in Sock : DaemonReply(s)
  \/ \E f \in {7, 14} : Dispatch("setFreq", f)
  \/ \E m \in {<<"C", "W">>} : Dispatch("setMode", m)
  \/ \E b \in BOOLEAN : Dispatch("setPTT", b)
  \/ Dispatch("setVfo", 0)

SpecDispatch == InitDispatch /\ [][NextDispatch]_vars

\* What a dispatch(method, arg) step must have done, cmd being the command the rigctld
\* plugin sends for it.
DispatchDone(method, arg, cmd) ==
  /\ instance' = instance /\ activeId' = activeId
  /\ IF instance = 0 \/ method \notin Methods
       THEN ~called'.ok /\ called'.invoked = <<>> /\ NothingSent
       ELSE /\ called'.ok /\ called'.invoked = <<[method |-> method, arg |-> arg]>>
            /\ SentOneMore(cmd)

\* C17: dispatch(method, args) returns failure and invokes nothing when no plugin is active
\* or the instance has no such method; otherwise it invokes the method once with the
\* arguments and returns success; the active instance and activeId stay as they were.
C17_Dispatch ==
  [][/\ \A f \in {7, 14} : Dispatch("setFreq", f) => DispatchDone("setFreq", f, <<"F", " ">> \o ToDecimal(f))
     /\ \A m \in {<<"C", "W">>} : Dispatch("setMode", m) => DispatchDone("setMode", m, <<"M", " ">> \o m \o <<" ", "0">>)
     /\ \A b \in BOOLEAN : Dispatch("setPTT", b)
          => DispatchDone("setPTT", b, IF b THEN <<"T", " ", "1">> ELSE <<"T", " ", "0">>)
     /\ Dispatch("setVfo", 0) => DispatchDone("setVfo", 0, <<>>)]_vars

\* dispatch has succeeded on a connected plugin that had a request in flight.
C17_Witness ==
  /\ called.ok /\ instance # 0 /\ plugins[instance].socket # NoSock
  /\ Len(plugins[instance].sent) >= 2 /\ plugins[instance].queue # <<>>

\* ------------------------------------------------------------- GET /stream
Opened == {c \in Client : streams[c].status # "none"}

StreamOpenNoSnapshot ==
  /\ Running
  /\ Cardinality(Opened) < MaxStreams
  /\ LET c == Cardinality(Opened) + 1
         w1 == [World EXCEPT !.streams[c] = [status |-> "open", events |-> <<>>]]
     IN Commit(addSseClient(w1, c))
  /\ http' = [route |-> "/stream", code |-> 200, freq |-> 0, calls |-> <<>>, missing |-> FALSE]
  /\ UNCHANGED <<rig, booted>>

\* GET /stream: the snapshot is written to the response, then the response is registered under
\* a new client id; both in the one handler.
StreamOpen ==
  /\ Running
  /\ Cardinality(Opened) < MaxStreams
  /\ LET c == Cardinality(Opened) + 1
         w1 == [World EXCEPT !.streams[c] = [status |-> "open", events |-> <<>>]]
     IN Commit(addSseClient(writeEvent(w1, c, InitEvent(state)), c))
  /\ http' = [route |-> "/stream", code |-> 200, freq |-> 0, calls |-> <<>>, missing |-> FALSE]
  /\ UNCHANGED <<rig, booted>>

\* The channel of client c fails: from now on a write on it fails.
StreamFail(c) ==
  /\ Running /\ streams[c].status = "open"
  /\ streams' = [streams EXCEPT ![c].status = "failed"]
  /\ UNCHANGED <<instance, activeId, config, state, plugins, socks, now, crashed, lastWrite, port, disk, links, flex, tci, wire, regTrace, rig, http,
                 booted, called, subs>>

\* req.on('close'): removeSseClient(clientId).
StreamClose(c) ==
  /\ Running /\ streams[c].status \in {"open", "failed"}
  /\ Commit(removeSseClient([World EXCEPT !.streams[c].status = "closed"], c))
  /\ UNCHANGED <<rig, http, booted>>

\* Date.now() advances.
Tick ==
  /\ now < MaxClock
  /\ now' = now + 1
  /\ UNCHANGED <<instance, activeId, config, state, plugins, socks, crashed, lastWrite, port, disk, links, flex, tci, wire, regTrace, rig, http,
                 booted, called, subs, streams>>

\* A 'data' event that carries whole lines.
DataLines(s) == \E k \in 1..Len(socks[s].inb) : socks[s].inb[k] = NL /\ Data(s, k)

InitStream ==
  /\ InitCommon
  /\ config \in [type : {"rigctld"}, serialPort : {FALSE}, pttEnabled : {FALSE}]

NextStream ==
  \/ ConnectActive
  \/ \E s \in Sock : RigConnectOk(s)
  \/ \E s \in Sock : RigRemoteClose(s)
  \/ \E s \in Sock : RigCloseEvent(s)
  \/ \E i \in Inst : PollTick(i)
  \/ \E s \in Sock : DaemonReply(s)
  \/ \E s \in Sock : DataLines(s)
  \/ StreamOpen
  \/ \E c \in Client : StreamFail(c)
  \/ \E c \in Client : StreamClose(c)
  \/ Tick

SpecStream == InitStream /\ [][NextStream]_vars

Range(seq) == {seq[k] : k \in 1..Len(seq)}
Live(c) == c \in Range(subs) /\ streams[c].status = "open"

\* updateState(prop, value) called in the current state does what its contract says.
UpdateStateContract(prop, value) ==
  LET w2 == updateState(World, instance, prop, value) IN
  IF state[prop] = value
    THEN w2.state = state /\ w2.subs = subs /\ w2.streams = streams
    ELSE /\ w2.state = [state EXCEPT ![prop] = value, !.lastUpdate = now]
         /\ \A c \in Client :
              IF Live(c) THEN w2.streams[c].events = Append(streams[c].events, ChangeEvent(prop, value))
              ELSE w2.streams[c] = streams[c]

SameFields ==
  /\ state'.connected = state.connected /\ state'.freq = state.freq /\ state'.mode = state.mode
  /\ state'.width = state.width /\ state'.ptt = state.ptt

\* C18: updateState with the current value changes nothing and notifies nobody; with another
\* value it sets the field, stamps lastUpdate and sends one change event to every live
\* subscriber; so a step that leaves the fields as they were (poll replies that repeat the
\* known values) writes to no subscriber.
C18_CompareBeforeSet ==
  /\ [](/\ \A v \in BOOLEAN : UpdateStateContract("connected", v) /\ UpdateStateContract("ptt", v)
        /\ \A v \in {0, 7, 14} : UpdateStateContract("freq", v)
        /\ \A v \in {<<>>, <<"U", "S", "B">>} : UpdateStateContract("mode", v)
        /\ \A v \in {0, 24} : UpdateStateContract("width", v))
  /\ [][SameFields => \A c \in Opened : streams'[c].events = streams[c].events]_vars

\* A subscriber that was there before the poll has the changes of freq, mode and width, and
\* nothing for ptt, whose polled value was the known one; the clock has advanced meanwhile.
C18_Witness ==
  \E c \in Client : \E i \in Inst :
    /\ Live(c) /\ streams[c].events[1].snap.freq = 0
    /\ plugins[i].completed = << <<"f">>, <<"m">>, <<"t">> >>
    /\ state.freq = rig.freq /\ state.lastUpdate = MaxClock
    /\ \A k \in 1..Len(streams[c].events) : streams[c].events[k].prop # "ptt"
    /\ \E k \in 1..Len(streams[c].events) : streams[c].events[k].prop = "width"

\* ------------------------------------------------------------- delivery failures
\* updateState(prop, value) with a new value, called in the current state: the subscribers
\* whose write fails are removed and nobody else is; every live subscriber gets the event;
\* the field is set; nothing reaches the calling plugin.
DeliveryContract(prop, value) ==
  LET w2 == updateState(World, instance, prop, value) IN
  state[prop] # value =>
    /\ w2.subs = SelectSeq(subs, LAMBDA c : streams[c].status = "open")
    /\ \A c \in Client :
         IF Live(c) THEN w2.streams[c].events = Append(streams[c].events, ChangeEvent(prop, value))
         ELSE w2.streams[c] = streams[c]
    /\ w2.state[prop] = value
    /\ w2.crashed = crashed /\ w2.plugins = plugins /\ w2.socks = socks

\* C19: a write failure on one subscriber removes that subscriber only: the other live
\* subscribers get the same event, also the one that follows the failed one in the list, the
\* state change takes effect and the failure does not reach the plugin.
C19_FailureRemovesOnlyThatOne ==
  /\ \A v \in BOOLEAN : DeliveryContract("connected", v) /\ DeliveryContract("ptt", v)
  /\ \A v \in {0, 7, 14} : DeliveryContract("freq", v)
  /\ \A v \in {<<>>, <<"U", "S", "B">>} : DeliveryContract("mode", v)
  /\ \A v \in {0, 24} : DeliveryContract("width", v)

\* The first subscriber's channel failed and a broadcast removed it, and the subscriber after
\* it in the list got that event.
C19_Witness ==
  /\ streams[1].status = "failed" /\ subs = <<2>> /\ streams[2].status = "open"
  /\ Len(streams[2].events) >= 2
  /\ Len(streams[2].events) > Len(streams[1].events)

\* ------------------------------------------------------------- what a subscriber sees
\* The fields a subscriber holds after applying the events written to it, snapshot first.
RECURSIVE Replay(_, _)
Replay(snap, evs) ==
  IF evs = <<>> THEN snap
  ELSE Replay([snap EXCEPT ![Head(evs).prop] = Head(evs).value], Tail(evs))

Fields(st) == [connected |-> st.connected, freq |-> st.freq, mode |-> st.mode, width |-> st.width, ptt |-> st.ptt]

ChangedFields == Cardinality({f \in DOMAIN NoSnap : state'[f] # state[f]})

\* C20: the first event of every /stream response is the snapshot; a live subscriber has got
\* every change since then, in order and once (its events applied to its snapshot give the
\* current fields, and each step adds as many events as fields changed); a subscriber whose
\* connection has closed is not in the subscriber set and is never written to again.
C20_SnapshotThenEveryChange ==
  /\ [](\A c \in Opened :
          /\ streams[c].events # <<>> /\ streams[c].events[1].type = "init"
          /\ \A k \in 2..Len(streams[c].events) : streams[c].events[k].type = "update"
          /\ Live(c) => Replay(streams[c].events[1].snap, Tail(streams[c].events)) = Fields(state)
          /\ streams[c].status = "closed" => c \notin Range(subs))
  /\ [][\A c \in Opened :
          /\ (Live(c) /\ streams'[c].status = "open")
               => Len(streams'[c].events) = Len(streams[c].events) + ChangedFields
          /\ streams[c].status = "closed" => streams'[c] = streams[c]]_vars

\* A subscriber that joined before the plugin connected has followed the poll's changes, and
\* another one has closed its connection and missed the later ones.
C20_Witness ==
  \E c \in Client : \E d \in Client :
    /\ Live(c) /\ Len(streams[c].events) >= 4 /\ ~streams[c].events[1].snap.connected
    /\ state.freq = rig.freq /\ state.width = rig.width
    /\ streams[d].status = "closed" /\ Len(streams[d].events) < Len(streams[c].events)

\* ------------------------------------------------------------- the configuration API
\* Bodies of POST /api/config: with or without port, with or without radio, the radio object
\* with any subset of its fields.
RadioBodies ==
  {[type |-> t] : t \in {"none", "rigctld", "bogus"}} \cup {[serialPort |-> TRUE], [pttEnabled |-> TRUE]}
    \cup {[type |-> "rigctld", pttEnabled |-> FALSE]}
ConfigRequests == [port : {0, 8080}, radio : RadioBodies \cup {NoRadio}]

InitSettings ==
  /\ InitCommon
  /\ config \in [type : {"none", "rigctld"}, serialPort : {FALSE}, pttEnabled : BOOLEAN]

NextSettings ==
  \/ ConnectActive
  \/ \E req \in ConfigRequests : PostConfigRequest(req)
  \/ \E s \in Sock : RigConnectOk(s)

SpecSettings == InitSettings /\ [][NextSettings]_vars

\* The radio fields after the request: a supplied field has the supplied value, every other
\* field the value it had.
Merged(req) ==
  \A k \in DOMAIN config :
    config'[k] = IF req.radio # NoRadio /\ k \in DOMAIN req.radio THEN req.radio[k] ELSE config[k]

HasFreeLink(w) == \E l \in Link : w.links[l].status = "free"
NewLink(w) == CHOOSE l \in Link : w.links[l].status = "free" /\ \A k \in Link : w.links[k].status = "free" => l <= k

\* The commands the client sends: `client program OpenHamClock`, `sub slice 0`, `xmit 1`.
ClientProgram == <<"c", "l", "i", "e", "n", "t">>
SubSlice == <<"s", "u", "b">>
Xmit == <<"x", "m", "i", "t">>

\* `C${seq}|${cmd}\n`
fullCmd(seq, cmd) == <<"C">> \o ToDecimal(seq) \o <<"|">> \o cmd \o <<NL>>

\* sendCommand(cmd, callback)
flexSendCommand(w, cmd, callback) ==
  IF w.flex.socket = NoSock \/ ~w.flex.connected
    THEN [w EXCEPT !.flex.commandQueue = Append(@, [cmd |-> cmd, callback |-> callback])]
    ELSE LET seq == w.flex.sequenceNumber + 1
         IN [w EXCEPT !.flex.sequenceNumber = seq,
                      !.flex.pendingCommands = IF callback THEN @ \cup {seq} ELSE @,
                      !.links[w.flex.socket].out = Append(@, fullCmd(seq, cmd))]

\* connect(): a second call while a socket exists does nothing.
flexConnect(w) ==
  IF w.flex.socket # NoSock THEN w
  ELSE [w EXCEPT !.flex.socket = NewLink(w),
                 !.links[NewLink(w)] = [owner |-> "flex", status |-> "connecting", out |-> <<>>,
                                        deliberate |-> FALSE]]

\* socket.destroy() / ws.close(): the 'close' event follows in a later turn.
closeLink(w, l) ==
  IF w.links[l].status \in {"connecting", "open"} THEN [w EXCEPT !.links[l].status = "closing"] ELSE w

\* clearTimeout(reconnectTimer); reconnectTimer = null
flexClearReconnect(w) == [w EXCEPT !.flex.reconnectTimer = FALSE]

\* disconnect()
flexDisconnect(w) ==
  LET w1 == flexClearReconnect([w EXCEPT !.flex.autoReconnect = FALSE])
  IN IF w1.flex.socket # NoSock
       THEN [closeLink(w1, w1.flex.socket) EXCEPT !.flex.socket = NoSock, !.links[w1.flex.socket].deliberate = TRUE]
       ELSE w1

\* handleDisconnect(): the 'close' handler of every socket the client created.
flexHandleDisconnectResetsSeq(w) ==
  LET w1 == [w EXCEPT !.flex.connected = FALSE, !.flex.handle = NoHandle, !.flex.socket = NoSock,
                      !.flex.pendingCommands = {}, !.flex.sequenceNumber = 0]
  IN IF w1.flex.autoReconnect
       THEN [w1 EXCEPT !.flex.reconnectTimer = TRUE,
                       !.flex.reconnectLeaked = IF w.flex.reconnectTimer THEN @ + 1 ELSE @]
       ELSE w1

flexHandleDisconnect(w) ==
  LET w1 == [w EXCEPT !.flex.connected = FALSE, !.flex.handle = NoHandle, !.flex.socket = NoSock,
                      !.flex.pendingCommands = {}, !.flex.dropped = @ \cup w.flex.pendingCommands]
  IN IF w1.flex.autoReconnect
       THEN [w1 EXCEPT !.flex.reconnectTimer = TRUE,
                       !.flex.reconnectLeaked = IF w.flex.reconnectTimer THEN @ + 1 ELSE @]
       ELSE w1

\* Array.prototype.join(sep)
RECURSIVE join(_, _)
join(parts, sep) ==
  IF parts = <<>> THEN <<>>
  ELSE IF Len(parts) = 1 THEN Head(parts)
  ELSE Head(parts) \o <<sep>> \o join(Tail(parts), sep)

\* The response object { seq, code, message } of an R line; parseInt(undefined) is NaN.
flexResponse(line) ==
  LET parts == split(Tail(line), "|")
  IN [seq |-> parseInt(parts[1]),
      code |-> IF Len(parts) >= 2 THEN parseInt(parts[2]) ELSE NaN,
      message |-> join(SubSeq(parts, 3, Len(parts)), "|")]

\* parseResponse(line): R<seq>|<code>|<message>
flexParseResponseKeepsCallback(w, line) ==
  LET response == flexResponse(line)
  IN IF response.seq \in w.flex.pendingCommands
       THEN [w EXCEPT !.flex.invoked = Append(@, response)]
       ELSE w

flexParseResponse(w, line) ==
  LET response == flexResponse(line)
  IN IF response.seq \in w.flex.pendingCommands
       THEN [w EXCEPT !.flex.pendingCommands = @ \ {response.seq},
                      !.flex.invoked = Append(@, response)]
       ELSE w

\* parseLine(line): the handle line marks the client connected and subscribes to the slice;
\* status, message and version lines only emit events.
flexParseLine(w, line) ==
  IF Head(line) = "H"
    THEN flexSendCommand([w EXCEPT !.flex.handle = Tail(line), !.flex.connected = TRUE], SubSlice, TRUE)
  ELSE IF Head(line) = "R" THEN flexParseResponse(w, line)
  ELSE w

RECURSIVE flexParseLines(_, _)
flexParseLines(w, lines) ==
  IF lines = <<>> THEN w
  ELSE flexParseLines(IF trim(Head(lines)) # <<>> THEN flexParseLine(w, trim(Head(lines))) ELSE w, Tail(lines))

\* handleData(data): the last piece of the split is the incomplete line kept in the buffer.
flexSplitLinesDropsBuffer(buffer, data) ==
  LET lines == split(data, NL)
  IN [buffer |-> lines[Len(lines)], lines |-> SubSeq(lines, 1, Len(lines) - 1)]

\* The first three statements of handleData: the complete lines of buffer + data, and the
\* incomplete rest that stays in the buffer.
flexSplitLines(buffer, data) ==
  LET lines == split(buffer \o data, NL)
  IN [buffer |-> lines[Len(lines)], lines |-> SubSeq(lines, 1, Len(lines) - 1)]

\* The lines that lines.forEach hands to parseLine: trimmed, the blank ones left out.
RECURSIVE flexTrimmed(_)
flexTrimmed(lines) ==
  IF lines = <<>> THEN <<>>
  ELSE (IF trim(Head(lines)) # <<>> THEN <<trim(Head(lines))>> ELSE <<>>) \o flexTrimmed(Tail(lines))

flexHandleData(w, data) ==
  LET r == flexSplitLines(w.flex.buffer, data)
  IN flexParseLines([w EXCEPT !.flex.buffer = r.buffer], r.lines)

\* sendClientIdentification(): the 'connect' handler.
flexSendClientIdentification(w) == flexSendCommand(w, ClientProgram, TRUE)

\* --- the calls and events of a FlexRadioClient
IsFlex(l) == links[l].owner = "flex"
CanSend == flex.sequenceNumber < MaxSeq /\ Len(flex.commandQueue) < MaxSeq

FlexConnect ==
  /\ flex.socket = NoSock => HasFreeLink(World)
  /\ Commit(flexConnect(World))
  /\ UNCHANGED <<rig, http, booted>>

FlexDisconnect ==
  /\ Commit(flexDisconnect(World))
  /\ UNCHANGED <<rig, http, booted>>

\* setPTT(true, callback) and the other commands of the public interface.
FlexSend(cmd) ==
  /\ CanSend
  /\ Commit(flexSendCommand(World, cmd, TRUE))
  /\ UNCHANGED <<rig, http, booted>>

\* 'connect' on socket l.
FlexTcpConnect(l) ==
  /\ IsFlex(l) /\ links[l].status = "connecting" /\ CanSend
  /\ Commit(flexSendClientIdentification([World EXCEPT !.links[l].status = "open"]))
  /\ UNCHANGED <<rig, http, booted>>

\* 'data' on socket l.
FlexData(l, data) ==
  /\ IsFlex(l) /\ links[l].status = "open" /\ CanSend
  /\ Len(flex.buffer) <= 1
  /\ Commit(flexHandleData(World, data))
  /\ UNCHANGED <<rig, http, booted>>

\* The connection of socket l fails or the radio ends it: the socket closes.
FlexLost(l) ==
  /\ IsFlex(l) /\ links[l].status \in {"connecting", "open"}
  /\ Commit(closeLink(World, l))
  /\ UNCHANGED <<rig, http, booted>>

\* 'close' on socket l.
FlexCloseEvent(l) ==
  /\ IsFlex(l) /\ links[l].status = "closing"
  /\ Commit(flexHandleDisconnect([World EXCEPT !.links[l].status = "closed"]))
  /\ UNCHANGED <<rig, http, booted>>

\* A reconnect timer expires: reconnect().
flexFireReconnect(w) ==
  IF w.flex.reconnectTimer THEN [w EXCEPT !.flex.reconnectTimer = FALSE]
  ELSE [w EXCEPT !.flex.reconnectLeaked = @ - 1]

FlexReconnectFire ==
  /\ flex.reconnectTimer \/ flex.reconnectLeaked > 0
  /\ flex.socket = NoSock => HasFreeLink(World)
  /\ Commit(flexConnect(flexFireReconnect(World)))
  /\ UNCHANGED <<rig, http, booted>>

\* What the radio sends: the handle line H1, whole or cut in two, and the replies R1|0| and
\* R2|5|e|r (a failure whose message holds a bar).
FlexChunks == {<<"H", "1", NL>>, <<"H">>, <<"1", NL>>, <<"R", "1", "|", "0", "|", NL>>,
               <<"R", "2", "|", "5", "|", "e", "|", "r", NL>>}

InitFlex ==
  /\ InitCommon
  /\ config = DefaultRadio

NextFlex ==
  \/ FlexConnect
  \/ FlexDisconnect
  \/ \E cmd \in {Xmit} : FlexSend(cmd)
  \/ \E l \in Link : FlexTcpConnect(l)
  \/ \E l \in Link, data \in FlexChunks : FlexData(l, data)
  \/ \E l \in Link : FlexLost(l)
  \/ \E l \in Link : FlexCloseEvent(l)
  \/ FlexReconnectFire

SpecFlex == InitFlex /\ [][NextFlex]_vars

\* ------------------------------------------------------------- FlexRadioClient: sequence numbers
\* Every line the client has written, in the order written: a client writes to the socket it
\* references, and sockets are created in the order of their numbers.
RECURSIVE WrittenUpTo(_)
WrittenUpTo(l) == IF l = 0 THEN <<>> ELSE WrittenUpTo(l - 1) \o (IF IsFlex(l) THEN links[l].out ELSE <<>>)
FlexWritten == WrittenUpTo(MaxLinks)

SeqOf(line) == parseInt(split(Tail(line), "|")[1])
\* C<seq>|<command>, one newline, at the end.
Wrapped(line) ==
  /\ Len(line) >= 4 /\ Head(line) = "C" /\ line[Len(line)] = NL
  /\ \A k \in 1..(Len(line) - 1) : line[k] # NL
  /\ Len(split(Tail(line), "|")) >= 2
  /\ SeqOf(line) >= 1 /\ split(Tail(line), "|")[1] = ToDecimal(SeqOf(line))
  /\ Len(split(Tail(line), "|")[2]) >= 2

\* C22: every line the FlexRadio client writes is C<seq>|<command> followed by a newline, and
\* its seq is greater than the seq of every line the client wrote before it, on the same
\* socket or on an earlier one.
C22_SeqStrictlyIncreasing ==
  /\ \A k \in 1..Len(FlexWritten) : Wrapped(FlexWritten[k])
  /\ \A j, k \in 1..Len(FlexWritten) : j < k => SeqOf(FlexWritten[j]) < SeqOf(FlexWritten[k])

\* The client has written on two sockets, on the second after a reconnect.
C22_Witness ==
  \E a, b \in Link : a < b /\ IsFlex(a) /\ IsFlex(b) /\ links[a].out # <<>> /\ Len(links[b].out) >= 2

\* ------------------------------------------------------------- FlexRadioClient: queued commands
\* The command of a written line: the text between the first '|' and the newline.
CmdOf(line) == LET c == split(Tail(line), "|")[2] IN SubSeq(c, 1, Len(c) - 1)

RECURSIVE IsSubsequence(_, _)
IsSubsequence(a, b) ==
  IF a = <<>> THEN TRUE
  ELSE IF b = <<>> THEN FALSE
  ELSE IF Head(a) = Head(b) THEN IsSubsequence(Tail(a), Tail(b))
  ELSE IsSubsequence(a, Tail(b))

\* The step in which the handle line is handled.
HandleAssigned == flex.handle = NoHandle /\ flex'.handle # NoHandle

\* C23: when the handle line arrives, the commands queued before it (the client
\* identification among them) are written to the socket in the order they were submitted,
\* and none stays queued.
C23_QueuedFlushedOnHandle ==
  [][HandleAssigned =>
       /\ flex'.commandQueue = <<>>
       /\ flex'.socket # NoSock
       /\ IsSubsequence([k \in 1..Len(flex.commandQueue) |-> flex.commandQueue[k].cmd],
                        [k \in 1..(Len(links'[flex'.socket].out) - Len(links[flex'.socket].out)) |->
                           CmdOf(links'[flex'.socket].out[Len(links[flex'.socket].out) + k])])]_vars

\* ------------------------------------------------------------- TCIClient
\* An argument the payload does not have reads as undefined.
Arg(args, k) == IF k <= Len(args) THEN args[k] ELSE <<"undefined">>
TciEvent(name, num, text) == [name |-> name, num |-> num, text |-> text]

\* handleCommand(command, args), for trx 0 and vfo 0: the events emitted and the fields set.
tciHandleCommand(t, command, args) ==
  IF command = <<"P", "R", "O", "T", "O", "C", "O", "L">>
    THEN [t EXCEPT !.protocolVersion = Arg(args, 1), !.emitted = Append(@, TciEvent("protocol", 0, Arg(args, 1)))]
  ELSE IF command = <<"D", "E", "V", "I", "C", "E">>
    THEN [t EXCEPT !.deviceName = Arg(args, 1), !.emitted = Append(@, TciEvent("device", 0, Arg(args, 1)))]
  ELSE IF command = <<"V", "F", "O">>
    THEN IF parseInt(Arg(args, 1)) = 0 /\ parseInt(Arg(args, 2)) = 0
           THEN [t EXCEPT !.emitted = Append(@, TciEvent("frequency", parseInt(Arg(args, 3)), <<>>))]
           ELSE t
  ELSE IF command = <<"M", "O", "D", "U", "L", "A", "T", "I", "O", "N">>
    THEN IF parseInt(Arg(args, 1)) = 0
           THEN [t EXCEPT !.emitted = Append(@, TciEvent("mode", 0, Arg(args, 2)))]
           ELSE t
  ELSE IF command = <<"T", "R", "X">>
    THEN IF parseInt(Arg(args, 1)) = 0
           THEN [t EXCEPT !.emitted = Append(@, TciEvent("ptt", IF Arg(args, 2) = <<"t", "r", "u", "e">> THEN 1 ELSE 0, <<>>))]
           ELSE t
  ELSE t

\* indexOf(':'): 0 stands for -1.
IndexOf(s, c) == IF \E k \in 1..Len(s) : s[k] = c THEN CHOOSE k \in 1..Len(s) : s[k] = c /\ \A j \in 1..(k - 1) : s[j] # c ELSE 0

\* parseMessage(message): one trailing semicolon removed, the command before the first colon,
\* the arguments split at commas.
tciParseMessage(t, message) ==
  LET m == trim(message)
      msg == IF m # <<>> /\ m[Len(m)] = ";" THEN SubSeq(m, 1, Len(m) - 1) ELSE m
      colonIndex == IndexOf(msg, ":")
  IN IF colonIndex = 0 THEN tciHandleCommand(t, msg, <<>>)
     ELSE tciHandleCommand(t, SubSeq(msg, 1, colonIndex - 1), split(SubSeq(msg, colonIndex + 1, Len(msg)), ","))

RECURSIVE tciParseEach(_, _)
tciParseEach(t, commands) ==
  IF commands = <<>> THEN t
  ELSE tciParseEach(IF Head(commands) # <<>> THEN tciParseMessage(t, Head(commands)) ELSE t, Tail(commands))

\* handleMessage(message): the payload is split at newlines.
tciHandleMessage(t, message) ==
  tciParseEach([t EXCEPT !.message = message, !.emitted = <<>>], split(trim(message), NL))

\* sendCommand(cmd): dropped unless connected; a semicolon is appended when missing.  Only an
\* open WebSocket carries the text.
tciSendCommand(w, cmd) ==
  IF w.tci.ws = NoSock \/ ~w.tci.connected \/ w.links[w.tci.ws].status # "open" THEN w
  ELSE [w EXCEPT !.links[w.tci.ws].out = Append(@, IF cmd[Len(cmd)] = ";" THEN cmd ELSE Append(cmd, ";"))]

\* connect()
tciConnect(w) ==
  IF w.tci.ws # NoSock THEN w
  ELSE [w EXCEPT !.tci.ws = NewLink(w),
                 !.links[NewLink(w)] = [owner |-> "tci", status |-> "connecting", out |-> <<>>,
                                        deliberate |-> FALSE]]

\* disconnect()
tciDisconnect(w) ==
  LET w1 == [w EXCEPT !.tci.autoReconnect = FALSE, !.tci.reconnectTimer = FALSE]
  IN IF w1.tci.ws # NoSock
       THEN [closeLink(w1, w1.tci.ws) EXCEPT !.tci.ws = NoSock, !.links[w1.tci.ws].deliberate = TRUE]
       ELSE w1

\* handleDisconnect(): the 'close' handler of every WebSocket the client created.
tciHandleDisconnect(w) ==
  LET w1 == [w EXCEPT !.tci.connected = FALSE, !.tci.ws = NoSock]
  IN IF w1.tci.autoReconnect
       THEN [w1 EXCEPT !.tci.reconnectTimer = TRUE,
                       !.tci.reconnectLeaked = IF w.tci.reconnectTimer THEN @ + 1 ELSE @]
       ELSE w1

\* The 'open' handler: connected, then START.
Start == <<"S", "T", "A", "R", "T">>
tciOnOpen(w) == tciSendCommand([w EXCEPT !.tci.connected = TRUE], Start)

\* --- the calls and events of a TCIClient
IsTci(l) == links[l].owner = "tci"

TciConnect ==
  /\ tci.ws = NoSock => HasFreeLink(World)
  /\ Commit(tciConnect(World))
  /\ UNCHANGED <<rig, http, booted>>

TciDisconnect ==
  /\ Commit(tciDisconnect(World))
  /\ UNCHANGED <<rig, http, booted>>

\* 'open' on WebSocket l.
TciOpen(l) ==
  /\ IsTci(l) /\ links[l].status = "connecting"
  /\ Commit(tciOnOpen([World EXCEPT !.links[l].status = "open"]))
  /\ UNCHANGED <<rig, http, booted>>

\* 'message' on WebSocket l.
TciMessage(l, message) ==
  /\ IsTci(l) /\ links[l].status = "open"
  /\ Commit([World EXCEPT !.tci = tciHandleMessage(@, message)])
  /\ UNCHANGED <<rig, http, booted>>

\* The connection of WebSocket l fails or the server ends it.
TciLost(l) ==
  /\ IsTci(l) /\ links[l].status \in {"connecting", "open"}
  /\ Commit(closeLink(World, l))
  /\ UNCHANGED <<rig, http, booted>>

\* 'close' on WebSocket l.
TciCloseEvent(l) ==
  /\ IsTci(l) /\ links[l].status = "closing"
  /\ Commit(tciHandleDisconnect([World EXCEPT !.links[l].status = "closed"]))
  /\ UNCHANGED <<rig, http, booted>>

\* A reconnect timer expires: reconnect().
tciFireReconnect(w) ==
  IF w.tci.reconnectTimer THEN [w EXCEPT !.tci.reconnectTimer = FALSE]
  ELSE [w EXCEPT !.tci.reconnectLeaked = @ - 1]

TciReconnectFire ==
  /\ tci.reconnectTimer \/ tci.reconnectLeaked > 0
  /\ tci.ws = NoSock => HasFreeLink(World)
  /\ Commit(tciConnect(tciFireReconnect(World)))
  /\ UNCHANGED <<rig, http, booted>>

\* Payloads of the server: VFO:0,0,14; and MODULATION:0,USB; and TRX:0,true; alone, two in one
\* payload, two separated by a newline, one for another receiver, and a command without
\* arguments.
VfoText == <<"V", "F", "O", ":", "0", ",", "0", ",", "1", "4", ";">>
ModulationText == <<"M", "O", "D", "U", "L", "A", "T", "I", "O", "N", ":", "0", ",", "U", "S", "B", ";">>
TrxText == <<"T", "R", "X", ":", "0", ",", "t", "r", "u", "e", ";">>
OtherVfoText == <<"V", "F", "O", ":", "1", ",", "0", ",", "7", ";">>
ReadyText == <<"R", "E", "A", "D", "Y", ";">>
TciPayloads ==
  {VfoText, ModulationText, TrxText, OtherVfoText, ReadyText, VfoText \o ModulationText,
   ModulationText \o VfoText, VfoText \o <<NL>> \o ModulationText, TrxText \o OtherVfoText \o VfoText}

InitTci ==
  /\ InitCommon
  /\ config = DefaultRadio

NextTci ==
  \/ TciConnect
  \/ TciDisconnect
  \/ \E l \in Link : TciOpen(l)
  \/ \E l \in Link, message \in TciPayloads : TciMessage(l, message)
  \/ \E l \in Link : TciLost(l)
  \/ \E l \in Link : TciCloseEvent(l)
  \/ TciReconnectFire

SpecTci == InitTci /\ [][NextTci]_vars

\* The commands of a payload: each piece that a semicolon ends, with its semicolon.
RECURSIVE EachAlone(_, _)
EachAlone(t, pieces) ==
  IF pieces = <<>> THEN <<>>
  ELSE (IF trim(Head(pieces)) # <<>>
          THEN tciHandleMessage(t, Append(Head(pieces), ";")).emitted ELSE <<>>)
       \o EachAlone(t, Tail(pieces))

\* C24: the events emitted for a payload are the events its semicolon-terminated commands
\* produce when each arrives in a payload of its own, in the same order.
C24_CommandsParsedIndependently ==
  tci.emitted = EachAlone(tci, split(tci.message, ";"))

\* ------------------------------------------------------------- the clients: reconnect after a close
\* The reconnect timers of a client that have not expired yet.
PendingTimers(c) == (IF c.reconnectTimer THEN 1 ELSE 0) + c.reconnectLeaked
ClientOf(l) == IF links[l].owner = "flex" THEN flex ELSE tci
ClientAfter(l) == IF links[l].owner = "flex" THEN flex' ELSE tci'
CloseDelivered(l) == links[l].status = "closing" /\ links'[l].status = "closed"

\* C25: a close that disconnect() did not cause arms exactly one reconnect timer, on the
\* first and on every later connection of the client; a close that disconnect() caused arms
\* none; and after disconnect() no reconnect timer of the client is pending.
C25_CloseSchedulesOneReconnect ==
  /\ [][\A l \in Link :
          CloseDelivered(l) =>
            PendingTimers(ClientAfter(l)) = PendingTimers(ClientOf(l)) + (IF links[l].deliberate THEN 0 ELSE 1)]_vars
  /\ [][FlexDisconnect => PendingTimers(flex') = 0]_vars
  /\ [][TciDisconnect => PendingTimers(tci') = 0]_vars

\* The same for closes on a client on which disconnect() was never called.
CloseSchedulesOneReconnectBeforeDisconnect ==
  [][\A l \in Link :
       (CloseDelivered(l) /\ ClientOf(l).autoReconnect) =>
         PendingTimers(ClientAfter(l)) = PendingTimers(ClientOf(l)) + 1]_vars

\* ------------------------------------------------------------- the clients: one socket, never lost
OpenLinks(owner) == {l \in Link : links[l].owner = owner /\ links[l].status \in {"connecting", "open"}}
SocketOf(c) == IF "socket" \in DOMAIN c THEN c.socket ELSE c.ws

\* C30: a client has at most one socket that is connecting or open, and it references that
\* socket; the 'close' event of a socket the client no longer references leaves the
\* reference to the current socket and the connected flag as they are.
C30_NeverLosesOpenSocket ==
  /\ [](/\ Cardinality(OpenLinks("flex")) <= 1 /\ \A l \in OpenLinks("flex") : flex.socket = l
        /\ Cardinality(OpenLinks("tci")) <= 1 /\ \A l \in OpenLinks("tci") : tci.ws = l)
  /\ [][\A l \in Link :
          (CloseDelivered(l) /\ SocketOf(ClientOf(l)) \notin {l, NoSock}) =>
            /\ SocketOf(ClientAfter(l)) = SocketOf(ClientOf(l))
            /\ ClientAfter(l).connected = ClientOf(l).connected]_vars

\* ------------------------------------------------------------- Icom CI-V (plugins/usb, protocol-icom.js)
\* Bytes are numbers 0..255.  A frame is FE FE <to> <from> <command> <payload> FD.
Preamble == 254
Terminator == 253
ControllerAddress == 224
\* getIcomAddress(): config.radio.icomAddress, 0x94 by default.
IcomAddress == 148

\* Five BCD bytes, least significant first, two decimal digits each.
RECURSIVE bcdToFreq(_)
bcdToFreq(bytes) ==
  IF bytes = <<>> THEN 0
  ELSE (Head(bytes) \div 16) * 10 + (Head(bytes) % 16) + 100 * bcdToFreq(Tail(bytes))

\* One complete frame: validated against the addresses and the length of a frequency report
\* (command 00 or 03 with five payload bytes) before it is decoded; anything else is inert.
icomHandleFrame(w, i, frame) ==
  IF /\ Len(frame) = 11
     /\ frame[3] = ControllerAddress /\ frame[4] = IcomAddress
     /\ frame[5] \in {0, 3}
    THEN updateState(w, i, "freq", bcdToFreq(SubSeq(frame, 6, 10)))
    ELSE w

\* The first position of a preamble FE FE in buf at or after k, 0 when there is none.
RECURSIVE FindPreamble(_, _)
FindPreamble(buf, k) ==
  IF k + 1 > Len(buf) THEN 0
  ELSE IF buf[k] = Preamble /\ buf[k + 1] = Preamble THEN k
  ELSE FindPreamble(buf, k + 1)

\* The running buffer is scanned for complete frames: bytes before a preamble are dropped, a
\* frame ends at the next terminator, and what follows the last complete frame is kept.
RECURSIVE icomScan(_, _, _)
icomScan(w, i, buf) ==
  LET start == FindPreamble(buf, 1)
      b == SubSeq(buf, start, Len(buf))
      end == IndexOf(b, Terminator)
  IN IF start = 0
       THEN [w EXCEPT !.plugins[i].rxBinaryBuffer =
                        IF buf # <<>> /\ buf[Len(buf)] = Preamble THEN <<Preamble>> ELSE <<>>]
     ELSE IF end = 0 THEN [w EXCEPT !.plugins[i].rxBinaryBuffer = b]
     ELSE icomScan(icomHandleFrame(w, i, SubSeq(b, 1, end)), i, SubSeq(b, end + 1, Len(b)))

\* proto.handleData(data, rxBinaryBuffer, updateState, getState): returns the new buffer.
icomHandleData(w, i, data) == icomScan(w, i, w.plugins[i].rxBinaryBuffer \o data)

\* --- the ASCII families (Yaesu, Kenwood)
\* The rxBuffer cap and what is kept of a buffer beyond it.
RxCap == 1000
RxKeep == 200

\* data.toString('ascii'): the high bit of every byte is dropped, so byte 0xBB reads as ';'.
HighSemi == "\\xBB"
toAscii(data) == [k \in DOMAIN data |-> IF data[k] = HighSemi THEN ";" ELSE data[k]]

LowerChars == <<"a", "b", "c", "d", "e", "f", "g", "h", "i", "j", "k", "l", "m",
                "n", "o", "p", "q", "r", "s", "t", "u", "v", "w", "x", "y", "z">>
UpperChars == <<"A", "B", "C", "D", "E", "F", "G", "H", "I", "J", "K", "L", "M",
                "N", "O", "P", "Q", "R", "S", "T", "U", "V", "W", "X", "Y", "Z">>
\* String.prototype.toUpperCase
toUpperCase(text) ==
  [k \in DOMAIN text |->
     IF \E n \in 1..26 : LowerChars[n] = text[k]
       THEN UpperChars[CHOOSE n \in 1..26 : LowerChars[n] = text[k]] ELSE text[k]]

YAESU_CMDS ==
  {<<"I", "F">>, <<"F", "A">>, <<"F", "B">>, <<"M", "D">>, <<"T", "X">>, <<"R", "X">>, <<"A", "I">>,
   <<"I", "D">>, <<"P", "S">>, <<"?", ";">>}

\* The for loop of processAsciiBuffer: where the response starts, idx being the place of the
\* first ';' (both counted from 1 here).
asciiStartLastPrefix(kind, buf, idx) ==
  LET hits == {j \in 1..(idx - 2) : toUpperCase(SubSeq(buf, j, j + 1)) \in YAESU_CMDS}
  IN IF kind = "yaesu" /\ idx >= 3 /\ hits # {} THEN CHOOSE j \in hits : \A h \in hits : j >= h ELSE 1

asciiStart(kind, buf, idx) ==
  LET hits == {j \in 1..(idx - 2) : toUpperCase(SubSeq(buf, j, j + 1)) \in YAESU_CMDS}
  IN IF kind = "yaesu" /\ idx >= 3 /\ hits # {} THEN CHOOSE j \in hits : \A h \in hits : j <= h ELSE 1

\* rxBuffer = rxBuffer.substring(idx + 1)
asciiAdvanceSkipsOne(buf, idx) == SubSeq(buf, idx + 2, Len(buf))

asciiAdvance(buf, idx) == SubSeq(buf, idx + 1, Len(buf))

\* The while loop of processAsciiBuffer: the responses handed to proto.parse, in order, and
\* what is left of the buffer.
RECURSIVE asciiExtract(_, _, _)
asciiExtract(kind, buf, responses) ==
  LET idx == IndexOf(buf, ";") IN
  IF idx = 0 THEN [buffer |-> buf, responses |-> responses]
  ELSE asciiExtract(kind, asciiAdvance(buf, idx),
                    Append(responses, SubSeq(buf, asciiStart(kind, buf, idx), idx - 1)))

\* if (rxBuffer.length > 1000) rxBuffer = rxBuffer.slice(-200)
asciiCapKeepsAll(buf) == buf

asciiCap(buf) == IF Len(buf) > RxCap THEN SubSeq(buf, Len(buf) - RxKeep + 1, Len(buf)) ELSE buf

\* processAsciiBuffer()
processAsciiBuffer(w, i) ==
  LET r == asciiExtract(w.plugins[i].kind, w.plugins[i].rxBuffer, <<>>)
  IN [w EXCEPT !.plugins[i].rxBuffer = asciiCap(r.buffer),
               !.plugins[i].handed = @ \o r.responses]

\* The 'data' handler of the serial port.
usbOnDataDropsBuffer(w, i, data) ==
  [icomHandleData(w, i, data) EXCEPT !.plugins[i].rxBinaryBuffer = <<>>]

usbOnData(w, i, data) ==
  IF w.plugins[i].kind = "icom" THEN icomHandleData(w, i, data)
  ELSE processAsciiBuffer([w EXCEPT !.plugins[i].rxBuffer = @ \o toAscii(data)], i)

\* Frames of the radio: two frequency reports (70000 Hz on command 03, 140000 Hz on command
\* 00), the frame FE FE 94 E0 03 FD, a report from another radio, a report to another
\* controller, a report cut short, a report without payload, and stray bytes.
Valid7 == <<254, 254, 224, 148, 3, 0, 0, 7, 0, 0, 253>>
Valid14 == <<254, 254, 224, 148, 0, 0, 0, 20, 0, 0, 253>>
EchoFrame == <<254, 254, 148, 224, 3, 253>>
WrongSource == <<254, 254, 224, 112, 3, 0, 0, 33, 0, 0, 253>>
WrongDestination == <<254, 254, 225, 148, 3, 0, 0, 33, 0, 0, 253>>
ShortFrame == <<254, 254, 224, 148, 3, 0, 33, 253>>
NoPayload == <<254, 254, 224, 148, 3, 253>>
StrayBytes == <<18, 253>>
ValidFrames == {Valid7, Valid14}
MalformedFrames == {EchoFrame, WrongSource, WrongDestination, ShortFrame, NoPayload, StrayBytes}

IsIcom(s) == socks[s].owner # 0 /\ plugins[socks[s].owner].kind = "icom"

\* The radio sends a frame; it answers once the plugin polls.
IcomSends(s, frame) ==
  /\ Running /\ IsIcom(s) /\ socks[s].status = "open"
  /\ plugins[socks[s].owner].pollTimer /\ plugins[socks[s].owner].settle = 0
  /\ Len(socks[s].fed) < MaxFrames
  /\ Commit([World EXCEPT !.socks[s].inb = @ \o frame, !.socks[s].fed = Append(@, frame)])
  /\ UNCHANGED <<rig, http, booted>>

\* 'data' on port s with the next k bytes.
IcomData(s, k) ==
  /\ Running /\ IsIcom(s) /\ socks[s].status = "open"
  /\ k \in 1..Len(socks[s].inb)
  /\ Commit(usbOnData([World EXCEPT !.socks[s].inb = SubSeq(@, k + 1, Len(@))], socks[s].owner,
                      SubSeq(socks[s].inb, 1, k)))
  /\ UNCHANGED <<rig, http, booted>>

InitCiv ==
  /\ InitCommon
  /\ config = [type |-> "icom", serialPort |-> TRUE, pttEnabled |-> FALSE]

NextCiv ==
  \/ ConnectActive
  \/ \E s \in Sock : UsbOpenOk(s)
  \/ \E i \in Inst : SettleFire(i)
  \/ \E s \in Sock, frame \in ValidFrames \cup MalformedFrames : IcomSends(s, frame)
  \/ \E s \in Sock, k \in 1..MaxChunk : IcomData(s, k)

SpecCiv == InitCiv /\ [][NextCiv]_vars

\* The frames of port s that have arrived whole: the longest prefix of fed whose bytes have
\* all been delivered.
RECURSIVE TotalLen(_)
TotalLen(frames) == IF frames = <<>> THEN 0 ELSE Len(Head(frames)) + TotalLen(Tail(frames))
Arrived(s) ==
  LET delivered == TotalLen(socks[s].fed) - Len(socks[s].inb)
      n == CHOOSE n \in 0..Len(socks[s].fed) :
             /\ TotalLen(SubSeq(socks[s].fed, 1, n)) <= delivered
             /\ \A m \in (n + 1)..Len(socks[s].fed) : TotalLen(SubSeq(socks[s].fed, 1, m)) > delivered
  IN SubSeq(socks[s].fed, 1, n)

\* The frequency the reports among frames announce last, InitState.freq when there is none.
RECURSIVE LastReported(_)
LastReported(frames) ==
  IF frames = <<>> THEN InitState.freq
  ELSE IF frames[Len(frames)] \in ValidFrames THEN bcdToFreq(SubSeq(frames[Len(frames)], 6, 10))
  ELSE LastReported(SubSeq(frames, 1, Len(frames) - 1))

InitRelink ==
  /\ InitCommon
  /\ config \in [type : {"rigctld"}, serialPort : {FALSE}, pttEnabled : {FALSE}]

NextRelink ==
  \/ ConnectActive
  \/ \E s \in Sock : RigConnectOk(s)
  \/ \E s \in Sock : RigSockError(s)
  \/ \E s \in Sock : RigRemoteClose(s)
  \/ \E s \in Sock : RigCloseEvent(s)
  \/ \E i \in Inst : ReconnectFire(i)
  \/ \E i \in Inst : PollTick(i)
  \/ PostFreq(14)
  \/ \E s \in Sock : DaemonReply(s)
  \/ \E s \in Sock : DataLines(s)

SpecRelink == InitRelink /\ [][NextRelink]_vars

\* C27: the close handler leaves no pending and no queued request; what is pending, queued
\* or written at any time was passed to send() on the current connection, so nothing issued
\* before a close is written after it; and every line consumed completes a request written
\* on the current connection, the oldest one still open.
C27_CloseDiscardsRequests ==
  /\ [](\A i \in RigInstances :
          LET p == plugins[i] IN
          /\ p.sent = p.written \o p.queue
          /\ IsPrefix(p.completed, p.written)
          /\ Len(p.written) - Len(p.completed) = (IF p.pending # NoReq THEN 1 ELSE 0)
          /\ p.pending # NoReq => p.pending = p.written[Len(p.written)]
          /\ p.socket = NoSock => (p.queue = <<>> /\ p.pending = NoReq))
  /\ [][\A s \in Sock :
          RigCloseEvent(s) =>
            /\ plugins'[socks[s].owner].pending = NoReq
            /\ plugins'[socks[s].owner].queue = <<>>]_vars

\* A close dropped a pending request and queued ones; on the connection made after it a poll's
\* first response has been consumed and the Gateway command issued after it is queued.
C27_Witness ==
  \E i \in RigInstances :
    /\ Len(plugins[i].discarded) >= 2
    /\ plugins[i].completed = << <<"f">> >>
    /\ plugins[i].queue # <<>> /\ plugins[i].sent[Len(plugins[i].sent)] = <<"F", " ", "1", "4">>
    /\ state.connected

\* ------------------------------------------------------------- rigctld: disconnect() while connecting
\* C28: a rigctld instance whose disconnect() was called while its TCP connect was in
\* progress never gets a socket reference from the connect callback (which would also set
\* connected and start polling), has no poll timer, and owns no open socket.
C28_ConnectAbandonedOnDisconnect ==
  \A i \in Inst :
    (plugins[i].kind = "rigctld" /\ plugins[i].disconnectedIn = "connecting") =>
      /\ plugins[i].socket = NoSock
      /\ ~plugins[i].pollTimer
      /\ \A s \in Sock : socks[s].owner = i => socks[s].status # "open"

\* ------------------------------------------------------------- timers after disconnect()
UsbKinds == {"kenwood", "yaesu", "icom"}

\* C29: once disconnect() was called on a rigctld or USB instance, in whatever phase, the
\* instance holds no armed poll or keepalive timer, referenced or leaked, in any later state.
C29_NoTimerAfterDisconnect ==
  \A i \in Inst :
    (plugins[i].kind \in UsbKinds \cup {"rigctld"} /\ plugins[i].disconnectedIn # "") =>
      (~plugins[i].pollTimer /\ plugins[i].pollLeaked = 0)

\* The USB part of C29 alone: disconnect() between the port open and the preamble start.
UsbNoTimerAfterDisconnect ==
  \A i \in Inst :
    (plugins[i].kind \in UsbKinds /\ plugins[i].disconnectedIn # "") =>
      (~plugins[i].pollTimer /\ plugins[i].pollLeaked = 0)

\* ------------------------------------------------------------- rigctld error replies
\* The daemon answers a command it cannot carry out with the line "RPRT -1" and stores nothing.
RprtError == <<"R", "P", "R", "T", " ", "-", "1">>

DaemonError(s) ==
  /\ Running /\ IsRig(s) /\ socks[s].status = "open" /\ socks[s].out # <<>>
  /\ socks' = [socks EXCEPT ![s].out = Tail(@), ![s].inb = @ \o RprtError \o <<NL>>]
  /\ UNCHANGED <<instance, activeId, config, state, plugins, rig, now, crashed, lastWrite, port, disk, links, flex, tci, wire, regTrace, http, booted, called, subs, streams>>

\* One rigctld plugin polled against a daemon that sometimes answers with an error.
InitErr ==
  /\ InitCommon
  /\ config \in [type : {"rigctld"}, serialPort : {FALSE}, pttEnabled : BOOLEAN]

NextErr ==
  \/ ConnectActive
  \/ \E s \in Sock : RigConnectOk(s)
  \/ \E i \in Inst : PollTick(i)
  \/ \E f \in FreqInputs : PostFreq(f)
  \/ \E b \in PttBodies : PostPtt(b)
  \/ \E s \in Sock : DaemonReply(s)
  \/ \E s \in Sock : DaemonError(s)
  \/ \E s \in Sock : DataLines(s)

SpecErr == InitErr /\ [][NextErr]_vars

PollRequests == {<<"f">>, <<"m">>, <<"t">>}

\* A data event that carries exactly the error line, while a poll request is pending.
ErrorDelivered(s) ==
  /\ IsRig(s)
  /\ plugins[socks[s].owner].pending \in PollRequests
  /\ Len(socks[s].inb) > Len(RprtError)
  /\ SubSeq(socks[s].inb, 1, Len(RprtError) + 1) = RprtError \o <<NL>>
  /\ Data(s, Len(RprtError) + 1)

\* C31: an error line answering a pending f, m or t leaves frequency, mode, bandwidth and PTT
\* as they were, completes the request and sends the next queued one.
C31_ErrorReplyDiscarded ==
  [][\A s \in Sock : ErrorDelivered(s) =>
       LET i == socks[s].owner IN
       /\ state'.freq = state.freq /\ state'.mode = state.mode
       /\ state'.width = state.width /\ state'.ptt = state.ptt
       /\ plugins'[i].completed = Append(plugins[i].completed, plugins[i].pending)
       /\ (plugins[i].queue # <<>> => plugins'[i].pending = Head(plugins[i].queue))]_vars

\* The part of C31 that the code keeps: the request is completed and the next one is sent.
ErrorReplyCompletesRequest ==
  [][\A s \in Sock : ErrorDelivered(s) =>
       LET i == socks[s].owner IN
       /\ plugins'[i].completed = Append(plugins[i].completed, plugins[i].pending)
       /\ (plugins[i].queue # <<>> => plugins'[i].pending = Head(plugins[i].queue))
       /\ (plugins[i].pending = <<"f">> => state'.freq = state.freq)]_vars

\* ------------------------------------------------------------- FlexRadioClient: completion callbacks
ReplyOk == <<"R", "1", "|", "0", "|", NL>>
ReplyFailed == <<"R", "2", "|", "5", "|", "e", "|", "r", NL>>

\* The data event carries one whole R line and the buffer holds nothing in front of it.
IsReply(data) == flex.buffer = <<>> /\ data \in {ReplyOk, ReplyFailed}

\* The response the two replies spell out.
Answer(data) ==
  IF data = ReplyOk THEN [seq |-> 1, code |-> 0, message |-> <<>>]
  ELSE [seq |-> 2, code |-> 5, message |-> <<"e", "|", "r">>]

ReplyArrives(l, data) == IsReply(data) /\ FlexData(l, data)

\* C32: an R line invokes the callback registered for its seq with the parsed code and
\* message and unregisters it; a seq without a callback invokes nothing; nothing else invokes
\* a callback; no seq is answered twice; a callback cleared by a connection loss is never
\* invoked afterwards.
C32_ResponseInvokesItsCallbackOnce ==
  /\ [](\A j, k \in DOMAIN flex.invoked : j # k => flex.invoked[j].seq # flex.invoked[k].seq)
  /\ [][/\ \A l \in Link, data \in FlexChunks :
             ReplyArrives(l, data) =>
               IF Answer(data).seq \in flex.pendingCommands
                 THEN /\ flex'.invoked = Append(flex.invoked, Answer(data))
                      /\ Answer(data).seq \notin flex'.pendingCommands
                 ELSE flex'.invoked = flex.invoked
        /\ flex'.invoked # flex.invoked =>
             /\ \E l \in Link, data \in FlexChunks : ReplyArrives(l, data)
             /\ Len(flex'.invoked) = Len(flex.invoked) + 1
             /\ flex'.invoked[Len(flex'.invoked)].seq \notin flex.dropped]_vars

\* A failed reply reached its callback, and a connection loss cleared another callback.
C32_Witness ==
  /\ \E k \in DOMAIN flex.invoked : flex.invoked[k] = [seq |-> 2, code |-> 5, message |-> <<"e", "|", "r">>]
  /\ flex.dropped # {}

\* ------------------------------------------------------------- FlexRadioClient: line framing
\* The radio's bytes: a version letter, a blank and the line end, in streams of up to MaxWire.
WireBytes == {"V", SP, NL}
WireStreams == UNION {[1..n -> WireBytes] : n \in 0..MaxWire}

\* 'connect' on socket l; the radio will send stream on this connection.
WireOpen(l, stream) ==
  /\ IsFlex(l) /\ links[l].status = "connecting" /\ CanSend
  /\ l <= MaxOpens
  /\ Commit([flexSendClientIdentification([World EXCEPT !.links[l].status = "open"])
               EXCEPT !.wire = [stream |-> stream, pos |-> 0, cuts |-> {}, carry |-> flex.buffer,
                                parsed |-> <<>>]])
  /\ UNCHANGED <<rig, http, booted>>

\* 'data' on socket l with the next k bytes of the stream.
Feed(l, k) ==
  LET data == SubSeq(wire.stream, wire.pos + 1, wire.pos + k) IN
  /\ IsFlex(l) /\ links[l].status = "open" /\ flex.socket = l
  /\ wire.pos + k <= Len(wire.stream)
  /\ Commit([flexHandleData(World, data)
               EXCEPT !.wire.pos = @ + k, !.wire.cuts = @ \cup {wire.pos + k},
                      !.wire.parsed = @ \o flexTrimmed(flexSplitLines(flex.buffer, data).lines)])
  /\ UNCHANGED <<rig, http, booted>>

\* One client whose connections are lost and re-established by the reconnect timer.
InitFraming ==
  /\ InitCommon
  /\ config = DefaultRadio

NextFraming ==
  \/ FlexConnect
  \/ \E l \in Link, stream \in WireStreams : WireOpen(l, stream)
  \/ \E l \in Link, k \in 1..MaxWire : Feed(l, k)
  \/ \E l \in Link : FlexLost(l)
  \/ \E l \in Link : FlexCloseEvent(l)
  \/ FlexReconnectFire

SpecFraming == InitFraming /\ [][NextFraming]_vars

\* The newline-terminated runs of bytes, read byte by byte, and the unterminated rest.
RECURSIVE Terminated(_, _)
Terminated(bytes, cur) ==
  IF bytes = <<>> THEN <<>>
  ELSE IF Head(bytes) = NL THEN <<cur>> \o Terminated(Tail(bytes), <<>>)
  ELSE Terminated(Tail(bytes), Append(cur, Head(bytes)))

RECURSIVE Unterminated(_, _)
Unterminated(bytes, cur) ==
  IF bytes = <<>> THEN cur
  ELSE IF Head(bytes) = NL THEN Unterminated(Tail(bytes), <<>>)
  ELSE Unterminated(Tail(bytes), Append(cur, Head(bytes)))

NonBlank(line) == line # <<>>
LinesOf(bytes) ==
  LET whole == Terminated(bytes, <<>>)
  IN SelectSeq([k \in DOMAIN whole |-> trim(whole[k])], NonBlank)

\* What the connection has received, behind what the buffer held when it began.
Received == wire.carry \o SubSeq(wire.stream, 1, wire.pos)

\* C33: however the stream is cut into data events, the lines parsed so far are the
\* terminated lines of the bytes received so far, each once and in order, and the buffer
\* holds the unterminated rest.
C33_ParsingIndependentOfSplit ==
  /\ wire.parsed = LinesOf(Received)
  /\ (wire.pos > 0 => flex.buffer = Unterminated(Received, <<>>))

\* A data event ended inside a line, and that line has been parsed.
C33_Witness ==
  \E c \in wire.cuts :
    /\ c + 1 < wire.pos /\ wire.stream[c] = "V" /\ wire.stream[c + 1] = "V" /\ wire.stream[c + 2] = NL
    /\ wire.parsed # <<>> /\ wire.parsed[Len(wire.parsed)] = <<"V", "V">>

\* ------------------------------------------------------------- FlexRadioClient: buffer across connections
\* C34: the lines parsed on a connection are lines of the bytes received on that connection;
\* nothing left in the buffer by an earlier connection is part of them.
C34_BufferNotCarriedOver ==
  wire.parsed = LinesOf(SubSeq(wire.stream, 1, wire.pos))

\* ------------------------------------------------------------- USB plugin: what is written after the port opens
\* The callback of a serialPort.write on port s; on a port that is closing it reports an error.
UsbWriteCallback(s, err) ==
  /\ Running /\ IsUsb(s) /\ socks[s].status \in {"open", "closing"}
  /\ socks[s].acked < Len(socks[s].tx)
  /\ socks[s].status = "closing" => err
  /\ Commit(usbWriteCallback(World, s, err))
  /\ UNCHANGED <<rig, http, booted>>

\* The callback of a serialPort.drain on port s.
UsbDrainCallback(s) ==
  /\ Running /\ IsUsb(s) /\ socks[s].status \in {"open", "closing"}
  /\ socks[s].drained < socks[s].acked
  /\ Commit(usbDrainCallback(World, s))
  /\ UNCHANGED <<rig, http, booted>>

\* The 300 ms timer armed after AI1; expires.
InitialPollFire(i) ==
  /\ Running /\ plugins[i].ifTimer > 0
  /\ Commit(usbInitialPoll(World, i))
  /\ UNCHANGED <<rig, http, booted>>

\* The initial state poll of instance i is behind it: AI1; is drained and the 300 ms timer
\* has expired.
Settled(i) ==
  /\ plugins[i].ifTimer = 0
  /\ \A s \in Sock : socks[s].owner = i =>
        \A k \in DOMAIN socks[s].tx : socks[s].tx[k].then = "initialPoll" => k <= socks[s].drained

\* The poll or keepalive interval of instance i expires.  The 30 s keepalive interval is long
\* against the AI1; write, its drain and the 300 ms timer.
UsbPollTick(i) ==
  /\ Running /\ plugins[i].kind \in UsbTypes /\ plugins[i].pollTimer
  /\ Settled(i)
  /\ \A s \in Sock : socks[s].owner = i => Len(socks[s].tx) < MaxSent
  /\ Commit(usbPollTick(World, i))
  /\ UNCHANGED <<rig, http, booted>>

\* The 5 s reconnect timer expires; the 300 ms timer has expired before it.
UsbReconnectFire(i) ==
  /\ plugins[i].kind \in UsbTypes /\ plugins[i].ifTimer = 0
  /\ ReconnectFire(i)

\* One USB plugin of any family on a port that opens, is lost and is reopened.
InitPreamble ==
  /\ InitCommon
  /\ config \in [type : UsbTypes, serialPort : {TRUE}, pttEnabled : {FALSE}]

NextPreamble ==
  \/ ConnectActive
  \/ \E s \in Sock : UsbOpenOk(s)
  \/ \E i \in Inst : SettleFire(i)
  \/ \E s \in Sock, err \in BOOLEAN : UsbWriteCallback(s, err)
  \/ \E s \in Sock : UsbDrainCallback(s)
  \/ \E i \in Inst : InitialPollFire(i)
  \/ \E i \in Inst : UsbPollTick(i)
  \/ \E s \in Sock : UsbPortLost(s)
  \/ \E s \in Sock : UsbCloseEvent(s)
  \/ \E i \in Inst : UsbReconnectFire(i)

SpecPreamble == InitPreamble /\ [][NextPreamble]_vars

TxData(s) == [k \in DOMAIN socks[s].tx |-> socks[s].tx[k].data]
KindOf(s) == plugins[socks[s].owner].kind

\* C35: on a Yaesu port the first write is AI1;, the only IF; is the write after it, and all
\* later writes are the keepalive, never a poll; on a Kenwood or Icom port every write is a
\* poll, the first made when polling starts and one more at each expiry of the interval.
C35_PreambleThenPolling ==
  /\ [](\A s \in Sock : (IsUsb(s) /\ socks[s].tx # <<>>) =>
          IF KindOf(s) = "yaesu"
            THEN /\ TxData(s)[1] = "AI1;"
                 /\ \A k \in DOMAIN TxData(s) :
                      /\ k > 1 => TxData(s)[k] \in {"IF;", "AI1;IF;"}
                      /\ TxData(s)[k] = "IF;" => k = 2
            ELSE \A k \in DOMAIN TxData(s) : TxData(s)[k] = "poll")
  /\ [][\A i \in Inst : (plugins[i].kind \in UsbTypes /\ isOpen(World, plugins[i].socket)) =>
          LET s == plugins[i].socket IN
          /\ SettleFire(i) =>
               TxData(s)' = Append(TxData(s), IF plugins[i].kind = "yaesu" THEN "AI1;" ELSE "poll")
          /\ UsbPollTick(i) =>
               TxData(s)' = Append(TxData(s), IF plugins[i].kind = "yaesu" THEN "AI1;IF;" ELSE "poll")]_vars

\* A Yaesu port has seen AI1;, IF; and a keepalive, in that order.
C35_Witness ==
  \E s \in Sock : IsUsb(s) /\ KindOf(s) = "yaesu" /\ TxData(s) = <<"AI1;", "IF;", "AI1;IF;">>

\* A Kenwood or Icom port has seen the immediate poll and one paced poll.
PolledTwice ==
  \E s \in Sock : IsUsb(s) /\ KindOf(s) # "yaesu" /\ TxData(s) = <<"poll", "poll">>

\* ------------------------------------------------------------- USB plugin: write and drain
\* setFreq, setMode or setPTT of the active USB instance.
UsbSet(i) ==
  /\ Running /\ instance = i /\ plugins[i].kind \in UsbTypes
  /\ \A s \in Sock : socks[s].owner = i => Len(socks[s].tx) < MaxSent
  /\ Commit(usbSet(World, i))
  /\ UNCHANGED <<rig, http, booted>>

\* A USB plugin that polls and takes Gateway commands.
NextSerial ==
  \/ NextPreamble
  \/ \E i \in Inst : UsbSet(i)

SpecSerial == InitPreamble /\ [][NextSerial]_vars

\* C38: every write for which write() has returned true has been written and drained.
C38_SuccessOnlyAfterDrain ==
  \A s \in Sock : IsUsb(s) =>
    \A k \in DOMAIN socks[s].tx :
      socks[s].tx[k].via = "write" => (k <= socks[s].drained /\ socks[s].tx[k].then = "drain")

\* What remains of C38: a poll is never handed to the port ahead of an earlier command.
CommandsKeepTheirOrder ==
  [][\A s \in Sock : (IsUsb(s) /\ socks[s].status = "open" /\ socks'[s].status = "open") =>
       /\ Len(socks'[s].tx) >= Len(socks[s].tx)
       /\ SubSeq(TxData(s)', 1, Len(socks[s].tx)) = TxData(s)]_vars

\* ------------------------------------------------------------- USB plugin: ASCII responses
\* What a Yaesu or Kenwood radio sends: two responses, a response behind a garbled byte, a
\* unit without a known command, an empty unit, a lower-case response, garbage that holds a
\* command ahead of the response, an unterminated piece, and a unit ended by byte 0xBB.
TwoUnits == <<"I", "F", "1", ";", "F", "A", "2", ";">>
Garbled == <<"x", "I", "F", "1", ";">>
UnknownUnit == <<"x", "y", ";">>
EmptyUnit == <<";">>
LowerCase == <<"i", "f", "3", ";">>
TwoPrefixes == <<"x", "F", "A", "I", "F", ";">>
Partial == <<"M", "D">>
HighBit == <<"I", "D", HighSemi>>
AsciiStreams == {TwoUnits, Garbled, UnknownUnit, EmptyUnit, LowerCase, TwoPrefixes, Partial, HighBit}

IsAscii(s) == socks[s].owner # 0 /\ plugins[socks[s].owner].kind \in {"yaesu", "kenwood"}

\* The radio sends a stream; it does so once the preamble has started.
AsciiSends(s, stream) ==
  /\ Running /\ IsAscii(s) /\ socks[s].status = "open"
  /\ plugins[socks[s].owner].pollTimer /\ plugins[socks[s].owner].settle = 0
  /\ Len(socks[s].fed) < MaxFrames
  /\ Commit([World EXCEPT !.socks[s].inb = @ \o stream, !.socks[s].fed = Append(@, stream)])
  /\ UNCHANGED <<rig, http, booted>>

\* 'data' on port s with the next k bytes.
AsciiData(s, k) ==
  /\ Running /\ IsAscii(s) /\ socks[s].status = "open"
  /\ k \in 1..Len(socks[s].inb)
  /\ Commit(usbOnData([World EXCEPT !.socks[s].inb = SubSeq(@, k + 1, Len(@))], socks[s].owner,
                      SubSeq(socks[s].inb, 1, k)))
  /\ UNCHANGED <<rig, http, booted>>

InitAscii ==
  /\ InitCommon
  /\ config \in [type : {"yaesu", "kenwood"}, serialPort : {TRUE}, pttEnabled : {FALSE}]

NextAscii ==
  \/ ConnectActive
  \/ \E s \in Sock : UsbOpenOk(s)
  \/ \E i \in Inst : SettleFire(i)
  \/ \E s \in Sock, stream \in AsciiStreams : AsciiSends(s, stream)
  \/ \E s \in Sock, k \in 1..MaxChunk : AsciiData(s, k)

SpecAscii == InitAscii /\ [][NextAscii]_vars

\* The text delivered on port s so far: what the radio sent less what is still under way.
RECURSIVE Flat(_)
Flat(chunks) == IF chunks = <<>> THEN <<>> ELSE Head(chunks) \o Flat(Tail(chunks))
DeliveredText(s) ==
  LET all == Flat(socks[s].fed) IN toAscii(SubSeq(all, 1, Len(all) - Len(socks[s].inb)))

\* The ';'-terminated units of a text, and the unterminated rest.
UnitsOf(text) == LET pieces == split(text, ";") IN SubSeq(pieces, 1, Len(pieces) - 1)
RestOf(text) ==
  LET ends == {k \in DOMAIN text : text[k] = ";"}
      last == IF ends = {} THEN 0 ELSE CHOOSE k \in ends : \A j \in ends : j <= k
  IN SubSeq(text, last + 1, Len(text))

IsSuffix(a, b) == Len(a) <= Len(b) /\ a = SubSeq(b, Len(b) - Len(a) + 1, Len(b))

CommandPrefixes ==
  {<<"I", "F">>, <<"F", "A">>, <<"F", "B">>, <<"M", "D">>, <<"T", "X">>, <<"R", "X">>, <<"A", "I">>,
   <<"I", "D">>, <<"P", "S">>}
StartsCommand(unit, j) == j + 1 <= Len(unit) /\ toUpperCase(<<unit[j], unit[j + 1]>>) \in CommandPrefixes

\* The unit from its first command prefix on; the whole unit when it holds none.
FromCommand(unit) ==
  IF \E j \in DOMAIN unit : StartsCommand(unit, j)
    THEN LET first == CHOOSE j \in DOMAIN unit : StartsCommand(unit, j) /\ \A h \in 1..(j - 1) : ~StartsCommand(unit, h)
         IN SubSeq(unit, first, Len(unit))
    ELSE unit

\* C37: a Yaesu response is its unit from the first known command prefix on, or the whole
\* unit when there is none; the buffer is what follows the last ';'; nothing is thrown.
C37_YaesuSkipsToCommand ==
  /\ ~crashed
  /\ \A s \in Sock : (IsAscii(s) /\ socks[s].status = "open" /\ plugins[socks[s].owner].kind = "yaesu") =>
       LET p == plugins[socks[s].owner]
           units == UnitsOf(DeliveredText(s))
       IN /\ p.handed = [k \in DOMAIN units |-> FromCommand(units[k])]
          /\ p.rxBuffer = RestOf(DeliveredText(s))

\* A response behind a garbled byte, one behind garbage holding a command, and an unknown unit.
C37_Witness ==
  \E s \in Sock :
    /\ IsAscii(s) /\ plugins[socks[s].owner].kind = "yaesu"
    /\ socks[s].fed = <<Garbled, TwoPrefixes, UnknownUnit>> /\ socks[s].inb = <<>>
    /\ plugins[socks[s].owner].handed = <<<<"I", "F", "1">>, <<"F", "A", "I", "F">>, <<"x", "y">>>>

\* ------------------------------------------------------------- USB plugin: the buffer cap
\* Noise without a ';': 600 characters in one stream, 400 in another.
Noise == [k \in 1..600 |-> "x"]
ShortNoise == [k \in 1..400 |-> "y"]

\* The radio sends noise and responses; a data event carries all that is under way.
NextCap ==
  \/ ConnectActive
  \/ \E s \in Sock : UsbOpenOk(s)
  \/ \E i \in Inst : SettleFire(i)
  \/ \E s \in Sock, stream \in {Noise, ShortNoise, Garbled, Partial} : AsciiSends(s, stream)
  \/ \E s \in Sock : AsciiData(s, Len(socks[s].inb))

SpecCap == InitAscii /\ [][NextCap]_vars

\* C39: the buffer never holds more than 1000 characters after a data event, and when the
\* unterminated rest of buffer and input is longer, the buffer is its last 200 characters.
C39_BufferCapped ==
  /\ [](\A i \in Inst : Len(plugins[i].rxBuffer) <= 1000)
  /\ [][\A s \in Sock : (IsAscii(s) /\ Len(socks[s].inb) > 0 /\ AsciiData(s, Len(socks[s].inb))) =>
          LET i == socks[s].owner
              rest == RestOf(plugins[i].rxBuffer \o toAscii(socks[s].inb))
          IN plugins'[i].rxBuffer =
               IF Len(rest) > 1000 THEN [k \in 1..200 |-> rest[Len(rest) - 200 + k]] ELSE rest]_vars

\* Noise beyond the cap left 200 characters, to which a piece of a response was added.
C39_Witness ==
  \E i \in Inst : Len(plugins[i].rxBuffer) = 202 /\ plugins[i].rxBuffer[201] = "M"

\* Noise of exactly 1000 characters is kept whole.
BufferFull == \E i \in Inst : Len(plugins[i].rxBuffer) = 1000

\* ------------------------------------------------------------- rigctld: queue growth
\* The requests that wait when all MaxSent accepted requests but the one written are queued.
QueueLimit == MaxSent - 1

\* C40: however many poll ticks and Gateway commands occur while the daemon is silent, the
\* queue of a connected rigctld instance stays below a limit.
C40_QueueBounded ==
  \A i \in RigInstances : Len(plugins[i].queue) < QueueLimit

\* While a request is pending every accepted request lengthens the queue by one.
SilentDaemonGrowsQueue ==
  [][\A i \in RigInstances :
       (plugins[i].pending # NoReq /\ plugins'[i].pending = plugins[i].pending
          /\ plugins'[i].completed = plugins[i].completed /\ plugins'[i].socket = plugins[i].socket)
       => Len(plugins'[i].queue) - Len(plugins[i].queue) = Len(plugins'[i].sent) - Len(plugins[i].sent)]_vars

====
